---- MODULE Spec2Model ----
(***************************************************************************)
(* The decision-and-delivery pipeline of the learning-session application: *)
(* the content safety gate (lib/ai/guardrails.ts), the intervention policy *)
(* (lib/ai/reasoningEngine.ts, lib/ai/scaffolding.ts), the two versions of *)
(* the streaming endpoint POST /api/ai/stream and the VoiceNarrator client *)
(* that consumes the stream.                                               *)
(*                                                                         *)
(* Texts are TLA+ strings; a character is a string of length one.          *)
(* Confidence scores of the 0-1 scale are held in hundredths (0.7 is 70).  *)
(***************************************************************************)
EXTENDS Integers, Sequences, FiniteSets, TLC

VARIABLES
    \* a library function called on its own
    input,      \* the arguments of the library function under analysis
    output,     \* what that function returned ([done |-> FALSE] before the call)
    calls,      \* number of library calls made so far
    \* module state of guardrails.ts
    lastIndex,  \* BLOCKED_PATTERNS[k].lastIndex
    \* one request to POST /api/ai/stream
    route,      \* "A": unnamed/part_004, "B": app/api/children/route.ts:217
    req,        \* the request body
    child,      \* the Child row of req.childId (exists: there is one)
    sessionExists, \* a Session row of req.sessionId exists
    utterances, \* the Utterance rows created, in order
    pc,         \* where the handler is
    analysis,   \* route A: the ReasoningAnalysis of analyzeUtterance
    scaffolding,\* route A: the ScaffoldingDecision of decideScaffolding
    aiResponse, \* route A: the message to say
    guardCall,  \* route A: the guardContent call (its argument, whether its review threw)
    decision,   \* route B: the ScaffoldingDecision of shouldProvidNudge
    inferenceCalls,  \* completions asked of the inference dependency
    generationCalls, \* completions asked of the generation dependency
    failure,    \* the dependency failure this request met ("" when none)
    status,     \* HTTP status of the response (0: no response yet)
    channel,    \* the chunks written to the response body, in order
    streamState,\* "open", "closed", "errored" or "cancelled"
    wordIdx,    \* the streaming loop's i
    waited,     \* the delays (ms) the streamer has waited out before the words
    \* the VoiceNarrator component that made the request
    cpc,        \* "waiting" (fetch pending), "reading", "done", "gone"
    cpos,       \* chunks read so far
    words,      \* fetchStream's words array
    displayText,
    isVisible,
    received,   \* types of the events the component handled, in order
    timers,     \* pending setTimeout callbacks of the 'end' branch
    onCompleteCalls,
    \* the session page that renders the component
    transcript, \* utterance rows in the body of the last session fetch received
    pageLoads,  \* session fetches whose response the page has handled
    page,       \* "P": app/session/[sessionId]/page.tsx, "L": app/(learning)/..., "": none
    inputText,  \* the text in the input box (currentUtterance, inputText)
    lastUtterance, \* the utterance prop of VoiceNarrator ("" for null or empty)
    submitted,  \* messages the child has submitted
    keystrokes, \* changes of the input box so far
    \* one session with several utterances
    now,        \* the clock, in seconds
    streams,    \* stream id -> the request and response stream of that utterance
    shown,      \* stream ids of the increments the component rendered, in order
    deliveries, \* the AI messages delivered: time and engagement score of each
    processed   \* per utterance the pipeline processed: the hesitation it held after it

unitVars == <<input, output, calls>>
serverVars == <<route, req, child, sessionExists, utterances, pc, analysis, scaffolding,
                aiResponse, decision, inferenceCalls, generationCalls, failure, status,
                channel, streamState, wordIdx, waited, guardCall>>
clientVars == <<cpc, cpos, words, displayText, isVisible, received, timers, onCompleteCalls>>
pageVars == <<transcript, pageLoads, page, inputText, lastUtterance, submitted, keystrokes>>
sessionVars == <<now, streams, shown, deliveries, processed>>
vars == <<unitVars, lastIndex, serverVars, clientVars, pageVars, sessionVars>>

(***************************************************************************)
(* Bounds of the model.                                                    *)
(***************************************************************************)
MaxWords == 2   \* words per candidate text handed to the safety gate
MaxCalls == 2   \* successive checkBlockedPatterns calls in one process

(***************************************************************************)
(* String primitives of JavaScript used by the code.                       *)
(***************************************************************************)
UpperAlphabet == "ABCDEFGHIJKLMNOPQRSTUVWXYZ"
LowerAlphabet == "abcdefghijklmnopqrstuvwxyz"

Char(s, i) == SubSeq(s, i, i)

\* The lower-case letter of every upper-case letter.
LowerMap ==
    [c \in {Char(UpperAlphabet, i) : i \in 1..Len(UpperAlphabet)} |->
        Char(LowerAlphabet, CHOOSE i \in 1..Len(UpperAlphabet) : Char(UpperAlphabet, i) = c)]

LowerChar(c) == IF c \in DOMAIN LowerMap THEN LowerMap[c] ELSE c

RECURSIVE toLowerCase(_)
toLowerCase(s) ==
    IF Len(s) = 0 THEN ""
    ELSE LowerChar(Char(s, 1)) \o toLowerCase(SubSeq(s, 2, Len(s)))

\* A literal pattern matches the lower-cased text ls at position i (1-based):
\* the i flag of the regular expressions, with ls = toLowerCase(text).
MatchAt(ls, lpat, i) ==
    /\ i >= 1
    /\ i + Len(lpat) - 1 <= Len(ls)
    /\ SubSeq(ls, i, i + Len(lpat) - 1) = lpat

\* First position >= from where lpat matches in ls, 0 when there is none.
IndexFrom(ls, lpat, from) ==
    LET hits == {i \in from..Len(ls) : MatchAt(ls, lpat, i)}
    IN  IF hits = {} THEN 0 ELSE CHOOSE i \in hits : \A j \in hits : i <= j

\* String.prototype.replace(new RegExp(pat, 'gi'), rep): every match, left
\* to right, without rescanning the replacement.
RECURSIVE replaceFrom(_, _, _, _, _)
replaceFrom(s, ls, lpat, rep, i) ==
    IF i > Len(s) THEN ""
    ELSE IF MatchAt(ls, lpat, i) THEN rep \o replaceFrom(s, ls, lpat, rep, i + Len(lpat))
    ELSE Char(s, i) \o replaceFrom(s, ls, lpat, rep, i + 1)

replace(s, pat, rep) == replaceFrom(s, toLowerCase(s), toLowerCase(pat), rep, 1)

\* String.prototype.split(' ')
RECURSIVE splitFrom(_, _, _)
splitFrom(s, i, cur) ==
    IF i > Len(s) THEN <<cur>>
    ELSE IF Char(s, i) = " " THEN <<cur>> \o splitFrom(s, i + 1, "")
    ELSE splitFrom(s, i + 1, cur \o Char(s, i))

split(s) == splitFrom(s, 1, "")

\* Array.prototype.join(' ')
RECURSIVE join(_)
join(ws) ==
    IF Len(ws) = 0 THEN ""
    ELSE IF Len(ws) = 1 THEN ws[1]
    ELSE ws[1] \o " " \o join(Tail(ws))

(***************************************************************************)
(* guardrails.ts, first version: FORBIDDEN_PATTERNS, sanitizeContent,      *)
(* aiSafetyReview(content, context), guardContent.                         *)
(***************************************************************************)
\* The alternatives of the eight regular expressions, in source order.
FORBIDDEN_PATTERNS ==
    << <<"reasoning", "analysis", "internal", "covert", "scaffold", "intervention">>,
       <<"struggle", "struggling", "difficulty", "problem", "issue", "confused">>,
       <<"assessment", "evaluate", "track", "monitor", "detect">>,
       <<"wrong", "incorrect", "bad", "poor", "weak", "failure">>,
       <<"can't", "cannot", "unable", "failed">>,
       <<"utterance", "metadata", "confidence", "threshold">>,
       <<"API", "prompt", "model", "GPT">>,
       <<"password", "credit card", "ssn", "social security">> >>

\* Object.entries(POSITIVE_ALTERNATIVES), in insertion order.
POSITIVE_ALTERNATIVES ==
    << <<"struggling", "learning">>,
       <<"wrong", "let's try another way">>,
       <<"incorrect", "interesting idea">>,
       <<"problem", "challenge">>,
       <<"confused", "thinking carefully">>,
       <<"can't", "learning how to">>,
       <<"failed", "tried">> >>

\* content.match(pattern) is non-null for some pattern.
\* The i flag: the alternatives in lower case.
lowerForbidden ==
    [p \in 1..Len(FORBIDDEN_PATTERNS) |->
        [a \in 1..Len(FORBIDDEN_PATTERNS[p]) |-> toLowerCase(FORBIDDEN_PATTERNS[p][a])]]

hasForbidden(content) ==
    LET ls == toLowerCase(content)
    IN  \E p \in 1..Len(FORBIDDEN_PATTERNS) :
            \E a \in 1..Len(FORBIDDEN_PATTERNS[p]) :
                IndexFrom(ls, lowerForbidden[p][a], 1) # 0

checkForbiddenPatterns(content) == [hasForbidden |-> hasForbidden(content)]

RECURSIVE sanitizeFrom(_, _)
sanitizeFrom(content, k) ==
    IF k > Len(POSITIVE_ALTERNATIVES) THEN content
    ELSE sanitizeFrom(replace(content, POSITIVE_ALTERNATIVES[k][1],
                              POSITIVE_ALTERNATIVES[k][2]), k + 1)

\* sanitizeContent with one more substitution, whose key ('no') no forbidden
\* pattern matches.
sanitizeContentUnlistedKey(content) == replace(sanitizeFrom(content, 1), "no", "not yet")

sanitizeContent(content) == sanitizeFrom(content, 1)

(***************************************************************************)
(* What the safety-review completion can come back with.  kind is          *)
(*   "throws"    the API call rejects (network error, timeout),            *)
(*   "empty"     choices[0].message.content is null or empty,              *)
(*   "malformed" the content is not JSON,                                  *)
(*   "json"      a JSON object; safe is its verdict field ("undefined"     *)
(*               when the object lacks it), suggestion its alternative     *)
(*               phrasing ("" when absent).                                *)
(***************************************************************************)
ReviewSuggestion == "Let's look together"

Reviews ==
    [kind : {"throws", "empty", "malformed"}, safe : {"undefined"}, suggestion : {""}]
    \cup [kind : {"json"}, safe : {"true", "false", "undefined"},
          suggestion : {"", ReviewSuggestion}]

\* aiSafetyReview(content, context), guardrails.ts:97
aiSafetyReview(content, review) ==
    IF review.kind \in {"throws", "malformed"}
    THEN \* catch: fail-safe
         [safe |-> FALSE, sanitizedContent |-> sanitizeContent(content)]
    ELSE LET \* JSON.parse(content || '{}')
             result == IF review.kind = "empty"
                       THEN [safe |-> "undefined", suggestion |-> ""]
                       ELSE [safe |-> review.safe, suggestion |-> review.suggestion]
         IN  [safe |-> IF result.safe = "undefined" THEN TRUE ELSE result.safe = "true",
              sanitizedContent |->
                  IF result.safe = "true" THEN content
                  ELSE IF result.suggestion # "" THEN result.suggestion ELSE content]

\* guardContent(content, context), guardrails.ts:152
guardContent(content, review) ==
    IF checkForbiddenPatterns(content).hasForbidden
    THEN [safe |-> FALSE, sanitizedContent |-> sanitizeContent(content)]
    ELSE aiSafetyReview(content, review)

(***************************************************************************)
(* guardrails.ts, second version: BLOCKED_PATTERNS, checkBlockedPatterns,  *)
(* aiSafetyReview(content), checkContentSafety.  Every pattern is a        *)
(* RegExp object with the g and i flags, created once when the module is   *)
(* loaded; RegExp.prototype.test reads and writes its lastIndex.           *)
(***************************************************************************)
BLOCKED_PATTERNS ==
    <<"reasoning", "analysis", "internal", "covert", "engine", "algorithm",
      "you're struggling", "you failed", "that's wrong", "you can't", "you shouldn't",
      "home address", "phone number", "password", "credit card", "social security",
      "violence", "weapon", "drugs", "alcohol">>

\* pattern.test(content) of a global regular expression whose lastIndex is li
\* (0-based): the search starts at li; a match moves lastIndex past it, a
\* failure resets it to 0.
\* The pattern is the literal lpattern (in lower case, for the i flag) and
\* lcontent is the content in lower case.
test(lpattern, lcontent, li) ==
    LET i == IF li > Len(lcontent) THEN 0 ELSE IndexFrom(lcontent, lpattern, li + 1)
    IN  IF i = 0 THEN [found |-> FALSE, lastIndex |-> 0]
        ELSE [found |-> TRUE, lastIndex |-> i - 1 + Len(lpattern)]

lowerBlocked == [k \in 1..Len(BLOCKED_PATTERNS) |-> toLowerCase(BLOCKED_PATTERNS[k])]

RECURSIVE checkBlockedFrom(_, _, _, _)
checkBlockedFrom(content, lcontent, li, k) ==
    IF k > Len(BLOCKED_PATTERNS)
    THEN [isSafe |-> "true", sanitizedContent |-> content, lastIndex |-> li]
    ELSE LET t == test(lowerBlocked[k], lcontent, li[k])
         IN  IF t.found
             THEN [isSafe |-> "false", sanitizedContent |-> "",
                   lastIndex |-> [li EXCEPT ![k] = t.lastIndex]]
             ELSE checkBlockedFrom(content, lcontent, [li EXCEPT ![k] = t.lastIndex], k + 1)

\* checkBlockedPatterns(content), guardrails.ts:267; li is the lastIndex of
\* every pattern before the call, the result carries it after the call.
checkBlockedPatterns(content, li) == checkBlockedFrom(content, toLowerCase(content), li, 1)

\* aiSafetyReview(content), guardrails.ts:284.  isSafe is the JavaScript
\* value handed back: "true", "false" or "undefined"; an undefined
\* sanitizedContent is "".
aiSafetyReview2(content, review) ==
    IF review.kind \in {"throws", "malformed", "empty"}
    THEN [isSafe |-> "false", sanitizedContent |-> ""]
    ELSE [isSafe |-> review.safe,
          sanitizedContent |-> IF review.safe = "true" THEN content ELSE review.suggestion]

\* checkContentSafety(content), guardrails.ts:345
checkContentSafety(content, review, li) ==
    LET patternCheck == checkBlockedPatterns(content, li)
    IN  IF patternCheck.isSafe # "true"
        THEN [isSafe |-> patternCheck.isSafe,
              sanitizedContent |-> patternCheck.sanitizedContent,
              patternCheck |-> patternCheck.isSafe,
              lastIndex |-> patternCheck.lastIndex]
        ELSE LET aiCheck == aiSafetyReview2(content, review)
             IN  [isSafe |-> aiCheck.isSafe,
                  sanitizedContent |-> aiCheck.sanitizedContent,
                  patternCheck |-> patternCheck.isSafe,
                  lastIndex |-> patternCheck.lastIndex]

\* The text has a match of some blocked pattern.
hasBlocked(content) ==
    LET ls == toLowerCase(content)
    IN  \E k \in 1..Len(BLOCKED_PATTERNS) : IndexFrom(ls, lowerBlocked[k], 1) # 0

(***************************************************************************)
(* reasoningEngine.ts: ReasoningAnalysis, ChildState, decideScaffolding.   *)
(***************************************************************************)
CONFIDENCE_THRESHOLD == 70      \* analysis.confidenceScore < 0.7

ConfidenceScores == 0..100      \* 0.00 .. 1.00

EmotionalStates == {"engaged", "confused", "frustrated", "excited"}

AllIndicators == <<"repeated words", "incomplete sentences", "long pause", "gave up">>

MaxIndicators == 3  \* struggling indicators one analysis can carry

IndicatorLists == {SubSeq(AllIndicators, 1, n) : n \in 0..MaxIndicators}

SuggestedNudge == "What else do you see?"

\* The fail-safe analysis of analyzeUtterance's catch block.
FailSafeAnalysis ==
    [vocabularyUsed |-> <<>>, newWords |-> <<>>, complexityLevel |-> "simple",
     hesitationDetected |-> FALSE, pauseDuration |-> 0,
     engagementIndicators |-> <<>>, strugglingIndicators |-> <<>>,
     emotionalTone |-> "neutral", shouldIntervene |-> FALSE,
     interventionReason |-> "", suggestedNudge |-> "", confidenceScore |-> 0]

\* The child state the stream route builds for every request (part_004:103).
FreshChildState ==
    [vocabularyLevel |-> "beginner", recentVocabulary |-> <<>>, pauseDurations |-> <<>>,
     engagementScore |-> 70, hesitationCount |-> 0, emotionalState |-> "engaged"]

\* decideScaffolding with the struggle-volume gate ahead of the frustration
\* gate.
decideScaffoldingStruggleFirst(an, childState) ==
    IF ~an.shouldIntervene \/ an.confidenceScore < CONFIDENCE_THRESHOLD
    THEN [action |-> "observe", message |-> "", delay |-> 0]
    ELSE IF Len(an.strugglingIndicators) > 2
    THEN [action |-> "speak",
          message |-> IF an.suggestedNudge # "" THEN an.suggestedNudge
                      ELSE "What do you notice? Tell me more!",
          delay |-> 5000]
    ELSE IF childState.emotionalState = "frustrated"
    THEN [action |-> "encourage",
          message |-> IF an.suggestedNudge # "" THEN an.suggestedNudge
                      ELSE "You're doing great! Let's think together.",
          delay |-> 3000]
    ELSE [action |-> "speak",
          message |-> IF an.suggestedNudge # "" THEN an.suggestedNudge
                      ELSE "I wonder what you're thinking?",
          delay |-> 6000]

\* decideScaffolding with the confidence gate joined by "and" instead of "or".
decideScaffoldingBothGates(an, childState) ==
    IF ~an.shouldIntervene /\ an.confidenceScore < CONFIDENCE_THRESHOLD
    THEN [action |-> "observe", message |-> "", delay |-> 0]
    ELSE IF childState.emotionalState = "frustrated"
    THEN [action |-> "encourage",
          message |-> IF an.suggestedNudge # "" THEN an.suggestedNudge
                      ELSE "You're doing great! Let's think together.",
          delay |-> 3000]
    ELSE IF Len(an.strugglingIndicators) > 2
    THEN [action |-> "speak",
          message |-> IF an.suggestedNudge # "" THEN an.suggestedNudge
                      ELSE "What do you notice? Tell me more!",
          delay |-> 5000]
    ELSE [action |-> "speak",
          message |-> IF an.suggestedNudge # "" THEN an.suggestedNudge
                      ELSE "I wonder what you're thinking?",
          delay |-> 6000]

\* decideScaffolding(analysis, childState, context), reasoningEngine.ts:218.
\* An absent message is "".
decideScaffolding(an, childState) ==
    IF ~an.shouldIntervene \/ an.confidenceScore < CONFIDENCE_THRESHOLD
    THEN [action |-> "observe", message |-> "", delay |-> 0]
    ELSE IF childState.emotionalState = "frustrated"
    THEN [action |-> "encourage",
          message |-> IF an.suggestedNudge # "" THEN an.suggestedNudge
                      ELSE "You're doing great! Let's think together.",
          delay |-> 3000]
    ELSE IF Len(an.strugglingIndicators) > 2
    THEN [action |-> "speak",
          message |-> IF an.suggestedNudge # "" THEN an.suggestedNudge
                      ELSE "What do you notice? Tell me more!",
          delay |-> 5000]
    ELSE [action |-> "speak",
          message |-> IF an.suggestedNudge # "" THEN an.suggestedNudge
                      ELSE "I wonder what you're thinking?",
          delay |-> 6000]

\* Array.prototype.slice(-n)
LastN(seq, n) == IF Len(seq) <= n THEN seq ELSE SubSeq(seq, Len(seq) - n + 1, Len(seq))

Max(a, b) == IF a >= b THEN a ELSE b
Min(a, b) == IF a <= b THEN a ELSE b

\* emotionalMapping[analysis.emotionalTone] || currentState.emotionalState
emotionalMapping(tone, current) ==
    CASE tone = "excited" -> "excited"
      [] tone = "frustrated" -> "frustrated"
      [] tone = "confused" -> "confused"
      [] tone = "neutral" -> "engaged"
      [] OTHER -> current

\* updateChildState without the Math.max / Math.min around the new score.
updateChildStateUnclamped(currentState, an) ==
    LET engagementDelta ==
            (IF Len(an.engagementIndicators) > 0 THEN 5 ELSE 0)
            - (IF Len(an.strugglingIndicators) > 0 THEN 3 ELSE 0)
            - (IF an.hesitationDetected THEN 2 ELSE 0)
    IN  [vocabularyLevel |-> currentState.vocabularyLevel,
         recentVocabulary |-> LastN(currentState.recentVocabulary \o an.newWords, 50),
         pauseDurations |-> LastN(Append(currentState.pauseDurations, an.pauseDuration), 10),
         engagementScore |-> currentState.engagementScore + engagementDelta,
         hesitationCount |-> currentState.hesitationCount
                             + (IF an.hesitationDetected THEN 1 ELSE 0),
         emotionalState |-> emotionalMapping(an.emotionalTone, currentState.emotionalState)]

\* updateChildState(currentState, analysis), reasoningEngine.ts:172
updateChildState(currentState, an) ==
    LET engagementDelta ==
            (IF Len(an.engagementIndicators) > 0 THEN 5 ELSE 0)
            - (IF Len(an.strugglingIndicators) > 0 THEN 3 ELSE 0)
            - (IF an.hesitationDetected THEN 2 ELSE 0)
    IN  [vocabularyLevel |-> currentState.vocabularyLevel,
         recentVocabulary |-> LastN(currentState.recentVocabulary \o an.newWords, 50),
         pauseDurations |-> LastN(Append(currentState.pauseDurations, an.pauseDuration), 10),
         engagementScore |-> Max(0, Min(100, currentState.engagementScore + engagementDelta)),
         hesitationCount |-> currentState.hesitationCount
                             + (IF an.hesitationDetected THEN 1 ELSE 0),
         emotionalState |-> emotionalMapping(an.emotionalTone, currentState.emotionalState)]

(***************************************************************************)
(* reasoningEngine.ts: analyzeUtterance, detectSilenceIntervention;        *)
(* scaffolding.ts: shouldDeliverNudge.                                     *)
(***************************************************************************)
\* The members of the completion's JSON object the model lets be absent.
AnalysisKeys == {"shouldIntervene", "confidenceScore", "emotionalTone"}

\* What the inference completion hands back: it throws, its content is empty,
\* its content is no JSON, or it is a JSON object with some of the members.
Completions ==
    [kind : {"throws", "empty", "unparsable"}, fields : {{}}, shouldIntervene : {FALSE},
     confidenceScore : {0}, emotionalTone : {"neutral"}]
    \cup [kind : {"json"}, fields : SUBSET AnalysisKeys, shouldIntervene : BOOLEAN,
          confidenceScore : {0, 90}, emotionalTone : {"frustrated", "happy"}]

\* analyzeUtterance with the catch block rethrowing the error.
analyzeUtteranceRethrows(completion) ==
    IF completion.kind = "throws"
    THEN [threw |-> TRUE, value |-> FailSafeAnalysis]
    ELSE IF completion.kind = "unparsable"
    THEN [threw |-> FALSE, value |-> FailSafeAnalysis]
    ELSE LET has(k) == completion.kind = "json" /\ k \in completion.fields
         IN  [threw |-> FALSE,
              value |-> [FailSafeAnalysis EXCEPT
                  !.emotionalTone = IF has("emotionalTone") THEN completion.emotionalTone
                                    ELSE "neutral",
                  !.shouldIntervene = has("shouldIntervene") /\ completion.shouldIntervene,
                  !.confidenceScore = IF has("confidenceScore") /\ completion.confidenceScore # 0
                                      THEN completion.confidenceScore ELSE 50]]

\* analyzeUtterance, reasoningEngine.ts:57: JSON.parse(content || '{}'), each
\* member defaulted with ||; every error ends in the catch block, which
\* returns the fail-safe analysis.  threw: an exception reaches the caller.
analyzeUtterance(completion) ==
    IF completion.kind \in {"throws", "unparsable"}
    THEN [threw |-> FALSE, value |-> FailSafeAnalysis]
    ELSE LET has(k) == completion.kind = "json" /\ k \in completion.fields
         IN  [threw |-> FALSE,
              value |-> [FailSafeAnalysis EXCEPT
                  !.emotionalTone = IF has("emotionalTone") THEN completion.emotionalTone
                                    ELSE "neutral",
                  !.shouldIntervene = has("shouldIntervene") /\ completion.shouldIntervene,
                  !.confidenceScore = IF has("confidenceScore") /\ completion.confidenceScore # 0
                                      THEN completion.confidenceScore ELSE 50]]

\* thresholds[childState.emotionalState] || 10, in seconds
thresholds(emotionalState) ==
    CASE emotionalState = "engaged" -> 12
      [] emotionalState = "confused" -> 8
      [] emotionalState = "frustrated" -> 5
      [] emotionalState = "excited" -> 15
      [] OTHER -> 10

\* detectSilenceIntervention, with the silence (now - lastUtteranceTime) given
\* in seconds.
detectSilenceIntervention(silenceDuration, childState) ==
    [needsIntervention |-> silenceDuration >= thresholds(childState.emotionalState),
     silenceDuration |-> silenceDuration]

\* shouldDeliverNudge, scaffolding.ts:345 (times in milliseconds)
shouldDeliverNudge(recentNudgeCount, timeSinceLastNudge, childEngagement) ==
    IF recentNudgeCount > 3 THEN FALSE
    ELSE IF timeSinceLastNudge < 20000 THEN FALSE
    ELSE IF childEngagement > 80 THEN FALSE
    ELSE TRUE

(***************************************************************************)
(* scaffolding.ts: NUDGE_TEMPLATES, getTemplateNudge,                      *)
(* generateContextualNudge.                                                *)
(***************************************************************************)
NudgeTypes == {"silence", "confusion", "encouragement", "vocabulary", "thinking"}

NUDGE_TEMPLATES ==
    [silence |-> <<"What do you see?", "I wonder what happens next?",
                   "Tell me what you're thinking!", "What's interesting here?">>,
     confusion |-> <<"Let's pause and think together.", "What part are you curious about?",
                     "Let's try looking at it this way...",
                     "That's a tricky one! Want to explore it?">>,
     encouragement |-> <<"You're doing great!", "I love how you're thinking!",
                         "That's a wonderful idea!", "Keep going, you've got this!">>,
     vocabulary |-> <<"That's a great word! Tell me more.",
                      "Ooh, interesting! What does that mean to you?",
                      "I like that word! Can you use it in another way?">>,
     thinking |-> <<"Let's think about that together.", "What do you wonder about?",
                    "Hmm, that's interesting...", "Let's explore that idea!">>]

\* getTemplateNudge(type); pick is Math.floor(Math.random() * templates.length) + 1
getTemplateNudge(type, pick) == NUDGE_TEMPLATES[type][pick]

\* The white space of the texts of the model.
IsWhiteSpace(c) == c \in {" ", "\n", "\t"}

\* String.prototype.trim()
RECURSIVE trim(_)
trim(s) ==
    IF Len(s) = 0 THEN ""
    ELSE IF IsWhiteSpace(Char(s, 1)) THEN trim(SubSeq(s, 2, Len(s)))
    ELSE IF IsWhiteSpace(Char(s, Len(s))) THEN trim(SubSeq(s, 1, Len(s) - 1))
    ELSE s

\* The number of words of a text: its runs of characters that are no white
\* space.
WordCount(s) ==
    Cardinality({i \in 1..Len(s) :
                    /\ ~IsWhiteSpace(Char(s, i))
                    /\ i = 1 \/ IsWhiteSpace(Char(s, i - 1))})

\* generateContextualNudge(context), scaffolding.ts:249.  completion is what
\* the generation comes back with: kind "throws" (the call rejects or the
\* response has no choice) or "content" with its text ("" for a null
\* content).
generateContextualNudge(type, completion, pick) ==
    IF completion.kind = "throws" THEN getTemplateNudge(type, pick)
    ELSE LET nudge == IF trim(completion.content) # "" THEN trim(completion.content)
                      ELSE getTemplateNudge(type, pick)
         IN  IF Len(split(nudge)) > 15 THEN getTemplateNudge(type, pick)
             ELSE nudge

(***************************************************************************)
(* Inputs of the safety gate.                                              *)
(***************************************************************************)
GuardDict == <<"you", "struggling", "wrong", "reasoning", "can't", "WRONG", "rapid", "great">>

RECURSIVE WordSeqs(_)
WordSeqs(n) ==
    IF n = 0 THEN {<<>>}
    ELSE LET shorter == WordSeqs(n - 1)
         IN  shorter \cup {Append(ws, GuardDict[d]) :
                              ws \in {w \in shorter : Len(w) = n - 1},
                              d \in 1..Len(GuardDict)}

\* Candidate messages: one to MaxWords words of the dictionary.
GateTexts == {join(ws) : ws \in WordSeqs(MaxWords) \ {<<>>}}

BlockedTexts == {"your password", "a weapon is a weapon", "what do you see?",
                 "you're struggling", "Internal reasoning"}

\* The analyses handed to the policy: every field decideScaffolding reads.
PolicyAnalyses ==
    {[FailSafeAnalysis EXCEPT !.shouldIntervene = si, !.confidenceScore = cs,
                              !.strugglingIndicators = st, !.suggestedNudge = sn] :
        si \in BOOLEAN, cs \in ConfidenceScores, st \in IndicatorLists,
        sn \in {"", SuggestedNudge}}

PolicyChildStates ==
    {[FreshChildState EXCEPT !.emotionalState = es] : es \in EmotionalStates}

(***************************************************************************)
(* The library functions called on their own: no request is in progress.   *)
(***************************************************************************)
NoChild == [exists |-> FALSE, aiVoiceEnabled |-> FALSE]

NoDecision == [shouldSpeak |-> FALSE, message |-> "", delay |-> 0]

NoScaffolding == [action |-> "none", message |-> "", delay |-> 0]

\* guardContent has not been called.
NoGuardCall == [called |-> FALSE, content |-> "", reviewThrew |-> FALSE]

NoRequest ==
    /\ route = "A"
    /\ req = [hasSessionId |-> FALSE, hasChildId |-> FALSE, utterance |-> "",
              parentOptIn |-> FALSE, silence |-> 0]
    /\ child = NoChild
    /\ sessionExists = FALSE
    /\ utterances = <<>>
    /\ pc = "idle"
    /\ analysis = FailSafeAnalysis
    /\ scaffolding = NoScaffolding
    /\ aiResponse = ""
    /\ decision = NoDecision
    /\ inferenceCalls = 0
    /\ generationCalls = 0
    /\ failure = ""
    /\ status = 0
    /\ channel = <<>>
    /\ streamState = "open"
    /\ wordIdx = 0
    /\ waited = <<>>
    /\ guardCall = NoGuardCall
    /\ cpc = "idle"
    /\ cpos = 0
    /\ words = <<>>
    /\ displayText = ""
    /\ isVisible = FALSE
    /\ received = <<>>
    /\ timers = 0
    /\ onCompleteCalls = 0

\* No page is open and no session is running.
NoSession ==
    /\ transcript = <<>>
    /\ pageLoads = 0
    /\ page = ""
    /\ inputText = ""
    /\ lastUtterance = ""
    /\ submitted = 0
    /\ keystrokes = 0
    /\ now = 0
    /\ streams = <<>>
    /\ shown = <<>>
    /\ deliveries = <<>>
    /\ processed = <<>>

NoCall == [done |-> FALSE]

InitGuard ==
    /\ input \in [fn : {"guardContent"}, content : GateTexts, review : Reviews]
                 \cup [fn : {"checkContentSafety"}, content : BlockedTexts, review : Reviews]
    /\ output = NoCall
    /\ calls = 0
    /\ lastIndex = [k \in 1..Len(BLOCKED_PATTERNS) |-> 0]
    /\ NoRequest
    /\ NoSession

GuardContentCall ==
    /\ input.fn = "guardContent"
    /\ ~output.done
    /\ output' = [done |-> TRUE,
                  hasForbidden |-> checkForbiddenPatterns(input.content).hasForbidden,
                  result |-> guardContent(input.content, input.review)]
    /\ calls' = calls + 1
    /\ UNCHANGED <<input, lastIndex, serverVars, clientVars, pageVars, sessionVars>>

CheckContentSafetyCall ==
    /\ input.fn = "checkContentSafety"
    /\ ~output.done
    /\ LET r == checkContentSafety(input.content, input.review, lastIndex)
       IN  /\ output' = [done |-> TRUE, result |-> r]
           /\ lastIndex' = r.lastIndex
    /\ calls' = calls + 1
    /\ UNCHANGED <<input, serverVars, clientVars, pageVars, sessionVars>>

\* The same process (another request, of this or another session) checks
\* another text: the module and its RegExp objects live on.
NextSafetyCheck ==
    /\ input.fn = "checkContentSafety"
    /\ output.done
    /\ calls < MaxCalls
    /\ \E c \in BlockedTexts, rv \in Reviews :
           input' = [fn |-> "checkContentSafety", content |-> c, review |-> rv]
    /\ output' = NoCall
    /\ UNCHANGED <<lastIndex, calls, serverVars, clientVars, pageVars, sessionVars>>

NextGuard == GuardContentCall \/ CheckContentSafetyCall \/ NextSafetyCheck

SpecGuard == InitGuard /\ [][NextGuard]_vars

InitPolicy ==
    /\ input \in [fn : {"decideScaffolding"}, analysis : PolicyAnalyses,
                  childState : PolicyChildStates]
    /\ output = NoCall
    /\ calls = 0
    /\ lastIndex = [k \in 1..Len(BLOCKED_PATTERNS) |-> 0]
    /\ NoRequest
    /\ NoSession

DecideScaffoldingCall ==
    /\ input.fn = "decideScaffolding"
    /\ ~output.done
    /\ output' = [done |-> TRUE, result |-> decideScaffolding(input.analysis, input.childState)]
    /\ calls' = calls + 1
    /\ UNCHANGED <<input, lastIndex, serverVars, clientVars, pageVars, sessionVars>>

NextPolicy == DecideScaffoldingCall

SpecPolicy == InitPolicy /\ [][NextPolicy]_vars

(***************************************************************************)
(* The engine's functions called on their own.                             *)
(***************************************************************************)
MaxUpdates == 3     \* successive updateChildState calls on one child state

NudgeCounts == 0..4
TimesSinceLastNudge == {0, 19999, 20000, 120000}
Engagements == {0, 80, 81, 100}

\* The tones the prompt of analyzeUtterance lists, and one it does not.
Tones == {"excited", "neutral", "frustrated", "confused", "happy"}

\* The keys of emotionalMapping.
MappedTones == {"excited", "frustrated", "confused", "neutral"}

\* The analyses handed to updateChildState: every field its score reads, and
\* analyses that differ in the tone and the new words alone.
UpdateAnalyses ==
    {[FailSafeAnalysis EXCEPT !.engagementIndicators = en, !.strugglingIndicators = st,
                              !.hesitationDetected = he] :
        en \in {<<>>, <<"used details">>}, st \in {<<>>, <<"repeated words">>},
        he \in BOOLEAN}
    \cup {[FailSafeAnalysis EXCEPT !.emotionalTone = et, !.newWords = nw] :
             et \in Tones, nw \in {<<>>, <<"puppy">>}}

\* Child states with every engagement score of the 0-100 scale.
UpdateChildStates == {[FreshChildState EXCEPT !.engagementScore = e] : e \in 0..100}

\* Texts of fifteen and of sixteen words.
FifteenWords ==
    "What do you think the little dog will do when it sees the red ball"

SixteenWords == FifteenWords \o " today"

\* What the generation hands back for a nudge: it throws, or its content is
\* null, blank, a short prompt, a text of fifteen words, one of sixteen, or
\* one of sixteen words on two lines.
NudgeCompletions ==
    [kind : {"throws"}, content : {""}]
    \cup [kind : {"content"},
          content : {"", "  ", " What do you see? ", FifteenWords, SixteenWords,
                     FifteenWords \o "\ntoday"}]

InitEngine ==
    /\ input \in [fn : {"shouldDeliverNudge"}, recentNudgeCount : NudgeCounts,
                  timeSinceLastNudge : TimesSinceLastNudge, childEngagement : Engagements]
                 \cup [fn : {"analyzeUtterance"}, completion : Completions]
                 \cup [fn : {"updateChildState"}, childState : UpdateChildStates]
                 \cup [fn : {"generateContextualNudge"}, type : NudgeTypes,
                       completion : NudgeCompletions]
    /\ output = NoCall
    /\ calls = 0
    /\ lastIndex = [k \in 1..Len(BLOCKED_PATTERNS) |-> 0]
    /\ NoRequest
    /\ NoSession

ShouldDeliverNudgeCall ==
    /\ input.fn = "shouldDeliverNudge"
    /\ ~output.done
    /\ output' = [done |-> TRUE,
                  result |-> shouldDeliverNudge(input.recentNudgeCount,
                                                input.timeSinceLastNudge,
                                                input.childEngagement)]
    /\ calls' = calls + 1
    /\ UNCHANGED <<input, lastIndex, serverVars, clientVars, pageVars, sessionVars>>

AnalyzeUtteranceCall ==
    /\ input.fn = "analyzeUtterance"
    /\ ~output.done
    /\ output' = [done |-> TRUE, result |-> analyzeUtterance(input.completion)]
    /\ calls' = calls + 1
    /\ UNCHANGED <<input, lastIndex, serverVars, clientVars, pageVars, sessionVars>>

\* One more utterance of the session: the state returned by the last call is
\* updated with the next analysis.  added: every term handed to the calls so
\* far, in order.
UpdateChildStateCall ==
    /\ input.fn = "updateChildState"
    /\ calls < MaxUpdates
    /\ \E an \in UpdateAnalyses :
          LET currentState == IF output.done THEN output.result ELSE input.childState
              added == IF output.done THEN output.added
                       ELSE input.childState.recentVocabulary
          IN  output' = [done |-> TRUE, analysis |-> an,
                         added |-> added \o an.newWords,
                         result |-> updateChildState(currentState, an)]
    /\ calls' = calls + 1
    /\ UNCHANGED <<input, lastIndex, serverVars, clientVars, pageVars, sessionVars>>

GenerateContextualNudgeCall ==
    /\ input.fn = "generateContextualNudge"
    /\ ~output.done
    /\ \E pick \in 1..Len(NUDGE_TEMPLATES[input.type]) :
          output' = [done |-> TRUE,
                     result |-> generateContextualNudge(input.type, input.completion, pick)]
    /\ calls' = calls + 1
    /\ UNCHANGED <<input, lastIndex, serverVars, clientVars, pageVars, sessionVars>>

NextEngine ==
    \/ ShouldDeliverNudgeCall \/ AnalyzeUtteranceCall \/ UpdateChildStateCall
    \/ GenerateContextualNudgeCall

SpecEngine == InitEngine /\ [][NextEngine]_vars

(***************************************************************************)
(* Properties of the safety gate.                                          *)
(***************************************************************************)
\* C1: whenever the fast path of guardContent finds a forbidden pattern in
\* the input, the sanitizedContent it returns has no match of any forbidden
\* pattern.
C1_SanitizedHasNoForbiddenPattern ==
    (output.done /\ input.fn = "guardContent" /\ output.hasForbidden)
        => ~hasForbidden(output.result.sanitizedContent)

\* C6: checkBlockedPatterns reports isSafe = false for every text that holds
\* a blocked pattern, whatever texts were checked before it.
C6_BlockedTextAlwaysReported ==
    (output.done /\ input.fn = "checkContentSafety" /\ hasBlocked(input.content))
        => output.result.patternCheck = "false"

\* The slow-path review of the last call was reached and could not complete.
ReviewFailed ==
    /\ output.done
    /\ \/ input.review.kind \in {"throws", "empty", "malformed"}
       \/ input.review.kind = "json" /\ input.review.safe = "undefined"
    /\ \/ input.fn = "guardContent" /\ ~output.hasForbidden
       \/ input.fn = "checkContentSafety" /\ output.result.patternCheck = "true"

\* C7: whenever the slow-path review cannot complete, the verdict the gate
\* returns is unsafe.
C7_FailedReviewIsUnsafe ==
    ReviewFailed =>
        IF input.fn = "guardContent" THEN output.result.safe = FALSE
        ELSE output.result.isSafe # "true"

\* C4: for every analysis whose confidenceScore is below 0.7 or whose
\* shouldIntervene is false, decideScaffolding answers 'observe' with delay 0
\* and no message, whatever the child state.
C4_LowConfidenceObserves ==
    (/\ output.done
     /\ input.fn = "decideScaffolding"
     /\ \/ input.analysis.confidenceScore < 70
        \/ ~input.analysis.shouldIntervene)
        => /\ output.result.action = "observe"
           /\ output.result.delay = 0
           /\ output.result.message = ""

\* C4 witness: a frustrated child, three struggle indicators, an analysis
\* that asks to intervene at confidence 0.69, and the decision is 'observe'.
C4_Witness ==
    /\ output.done
    /\ input.fn = "decideScaffolding"
    /\ input.analysis.shouldIntervene
    /\ input.analysis.confidenceScore = 69
    /\ input.childState.emotionalState = "frustrated"
    /\ Len(input.analysis.strugglingIndicators) = 3
    /\ output.result.action = "observe"

\* C23: for a reasoning result that passes the confidence gate,
\* decideScaffolding applies the gates in priority order: a frustrated child
\* gets 'encourage' with delay 3000 ms even with more than two struggle
\* indicators; otherwise more than two struggle indicators give 'speak' with
\* delay 5000 ms; otherwise 'speak' with delay 6000 ms.
C23_GatesInPriorityOrder ==
    (/\ output.done
     /\ input.fn = "decideScaffolding"
     /\ input.analysis.shouldIntervene
     /\ input.analysis.confidenceScore >= 70)
        => IF input.childState.emotionalState = "frustrated"
           THEN output.result.action = "encourage" /\ output.result.delay = 3000
           ELSE IF Len(input.analysis.strugglingIndicators) > 2
           THEN output.result.action = "speak" /\ output.result.delay = 5000
           ELSE output.result.action = "speak" /\ output.result.delay = 6000

\* C23 witness: a frustrated child with three struggle indicators and an
\* analysis that passes the gate at confidence 0.70 is encouraged after 3 s.
C23_Witness ==
    /\ output.done
    /\ input.fn = "decideScaffolding"
    /\ input.analysis.shouldIntervene
    /\ input.analysis.confidenceScore = 70
    /\ input.childState.emotionalState = "frustrated"
    /\ Len(input.analysis.strugglingIndicators) = 3
    /\ output.result.action = "encourage"
    /\ output.result.delay = 3000

(***************************************************************************)
(* Properties of the engine's functions.                                   *)
(***************************************************************************)
\* C14: with three interventions already delivered in the window
\* (recentNudgeCount = 3), shouldDeliverNudge returns false for the fourth
\* candidate, whatever the time since the last nudge and the engagement.
C14_FourthNudgeSuppressed ==
    (output.done /\ input.fn = "shouldDeliverNudge" /\ input.recentNudgeCount = 3)
        => output.result = FALSE

\* C16: when the inference dependency throws, analyzeUtterance returns the
\* default result (shouldIntervene false, confidence 0, a tone that
\* updateChildState maps to the emotional state engaged) and no exception
\* reaches its caller.
C16_InferenceThrowsGivesDefault ==
    (output.done /\ input.fn = "analyzeUtterance" /\ input.completion.kind = "throws")
        => /\ ~output.result.threw
           /\ output.result.value.shouldIntervene = FALSE
           /\ output.result.value.confidenceScore = 0
           /\ \A cs \in PolicyChildStates :
                  updateChildState(cs, output.result.value).emotionalState = "engaged"

\* C16 witness: the call with a throwing completion has returned the
\* fail-safe analysis.
C16_Witness ==
    /\ output.done /\ input.fn = "analyzeUtterance"
    /\ input.completion.kind = "throws"
    /\ output.result.value = FailSafeAnalysis

\* The completion has no content, or is an object without the decision or
\* the confidence member.
InferenceOutputLacking ==
    /\ input.fn = "analyzeUtterance"
    /\ \/ input.completion.kind = "empty"
       \/ /\ input.completion.kind = "json"
          /\ {"shouldIntervene", "confidenceScore"} \cap input.completion.fields = {}

\* C17: when the inference output is empty or lacks the expected fields, the
\* result has shouldIntervene false and confidenceScore 0.
C17_LackingOutputGivesZeroConfidence ==
    (output.done /\ InferenceOutputLacking)
        => /\ output.result.value.shouldIntervene = FALSE
           /\ output.result.value.confidenceScore = 0

\* C18: after any sequence of updateChildState calls that starts from an
\* engagement score within [0,100], the engagement score is within [0,100].
C18_EngagementWithinRange ==
    (output.done /\ input.fn = "updateChildState")
        => output.result.engagementScore \in 0..100

\* C18 witness: from a score of 3 two analyses with hesitation have been
\* applied and the score stands at the lower end of the scale.
C18_Witness ==
    /\ output.done /\ input.fn = "updateChildState"
    /\ input.childState.engagementScore = 3
    /\ calls = 2
    /\ output.result.hesitationCount = 2
    /\ output.result.engagementScore = 0

\* The phrases of the template bank of a nudge type.
TemplateBank(type) == {NUDGE_TEMPLATES[type][i] : i \in 1..Len(NUDGE_TEMPLATES[type])}

\* C25: generateContextualNudge always returns a text of at most 15 words: a
\* generated candidate of more than 15 words, an empty result and a
\* generation failure each yield a phrase from the template bank of the
\* requested nudge type.
C25_NudgeAtMostFifteenWords ==
    (output.done /\ input.fn = "generateContextualNudge")
        => /\ WordCount(output.result) <= 15
           /\ (\/ input.completion.kind = "throws"
               \/ trim(input.completion.content) = ""
               \/ WordCount(input.completion.content) > 15)
                  => output.result \in TemplateBank(input.type)

\* C26: updateChildState sets the emotional state to 'engaged' for every
\* inferred tone that is not one of the mapped tones, whatever the previous
\* emotional state was.
C26_UnmappedToneGivesEngaged ==
    (output.done /\ input.fn = "updateChildState"
     /\ output.analysis.emotionalTone \notin MappedTones)
        => output.result.emotionalState = "engaged"

\* The distinct terms of a sequence, each at the place of its last
\* occurrence.
RECURSIVE LastOccurrences(_)
LastOccurrences(terms) ==
    IF Len(terms) = 0 THEN <<>>
    ELSE IF \E i \in 2..Len(terms) : terms[i] = terms[1]
    THEN LastOccurrences(Tail(terms))
    ELSE <<terms[1]>> \o LastOccurrences(Tail(terms))

\* C27: after any sequence of updateChildState calls, recentVocabulary holds
\* at most 50 terms, all distinct, and they are the most recently added
\* ones.
C27_VocabularyCappedAndDistinct ==
    (output.done /\ input.fn = "updateChildState")
        => LET vocab == output.result.recentVocabulary
           IN  /\ Len(vocab) <= 50
               /\ \A i, j \in 1..Len(vocab) : vocab[i] = vocab[j] => i = j
               /\ vocab = LastN(LastOccurrences(output.added), 50)

(***************************************************************************)
(* The response body.  A chunk is one controller.enqueue (or the whole     *)
(* body of a plain Response).  An SSE chunk is the line "data: <json>"     *)
(* followed by an empty line; of the JSON object the record keeps the type *)
(* member ("undefined" when the object has none) and, for the member named *)
(* by field, the characters written between its double quotes (raw).       *)
(***************************************************************************)
SseEvent(type, field, raw) == [fmt |-> "sse", type |-> type, field |-> field, raw |-> raw]

\* data: {"type":"word","content":"${words[i]}","index":${i}}
WordEventA(word, i) ==
    [fmt |-> "sse", type |-> "word", field |-> "content", raw |-> word, index |-> i]

PlainBody(text) == [fmt |-> "plain", raw |-> text]

(***************************************************************************)
(* The stream route, first version (unnamed/part_004, POST).               *)
(***************************************************************************)
ChildUtterance == "I see a dog"

\* silence: seconds from the session's previous utterance to this request.
Requests == [hasSessionId : BOOLEAN, hasChildId : BOOLEAN, utterance : {ChildUtterance},
             parentOptIn : BOOLEAN, silence : {0, 16}]

Children == {NoChild} \cup [exists : {TRUE}, aiVoiceEnabled : BOOLEAN]

\* Texts the completions can hand back as a nudge or a reply.
Nudges == {"Tell me more", "Say \"hi\" now", "look  here", "yes\\no maybe",
           "Great reasoning"}

\* What analyzeUtterance returns when the completion parses (its fields after
\* the defaults of reasoningEngine.ts:111-124).
ParsedAnalyses ==
    {[FailSafeAnalysis EXCEPT !.shouldIntervene = si, !.confidenceScore = cs,
                              !.strugglingIndicators = st, !.suggestedNudge = sn,
                              !.emotionalTone = et] :
        si \in BOOLEAN, cs \in {50, 90}, st \in {<<>>, SubSeq(AllIndicators, 1, 3)},
        sn \in {""} \cup Nudges, et \in {"neutral", "frustrated"}}

\* The catch block of POST: the error goes into the body of a 500 response.
Catch(error) ==
    /\ failure' = error
    /\ status' = 500
    /\ channel' = <<SseEvent("error", "message", error)>>
    /\ streamState' = "closed"
    /\ pc' = "done"

\* req.json(), then the parentOptIn test.
A_Receive ==
    /\ route = "A" /\ pc = "start"
    /\ IF ~req.parentOptIn
       THEN /\ status' = 200
            /\ channel' = <<SseEvent("silent", "reason", "AI voice not enabled")>>
            /\ streamState' = "closed"
            /\ pc' = "done"
       ELSE /\ pc' = "findChild"
            /\ UNCHANGED <<status, channel, streamState>>
    /\ UNCHANGED <<unitVars, pageVars, sessionVars, lastIndex, clientVars, route, req, child, waited, guardCall, sessionExists,
                   utterances, analysis, scaffolding, aiResponse, decision,
                   inferenceCalls, generationCalls, failure, wordIdx>>

\* prisma.child.findUnique: the query can reject; without a row the handler
\* throws 'Child not found'.
A_FindChild ==
    /\ route = "A" /\ pc = "findChild"
    /\ \E dbOk \in BOOLEAN :
          IF ~dbOk \/ ~req.hasChildId
          THEN Catch("PrismaClientKnownRequestError: Invalid prisma.child.findUnique() invocation")
          ELSE IF ~child.exists
          THEN Catch("Error: Child not found")
          ELSE /\ pc' = "findSession"
               /\ UNCHANGED <<failure, status, channel, streamState>>
    /\ UNCHANGED <<unitVars, pageVars, sessionVars, lastIndex, clientVars, route, req, child, waited, guardCall, sessionExists,
                   utterances, analysis, scaffolding, aiResponse, decision,
                   inferenceCalls, generationCalls, wordIdx>>

A_FindSession ==
    /\ route = "A" /\ pc = "findSession"
    /\ \E dbOk \in BOOLEAN :
          IF ~dbOk \/ ~req.hasSessionId
          THEN Catch("PrismaClientKnownRequestError: Invalid prisma.session.findUnique() invocation")
          ELSE IF ~sessionExists
          THEN Catch("Error: Session not found")
          ELSE /\ pc' = "saveUtterance"
               /\ UNCHANGED <<failure, status, channel, streamState>>
    /\ UNCHANGED <<unitVars, pageVars, sessionVars, lastIndex, clientVars, route, req, child, waited, guardCall, sessionExists,
                   utterances, analysis, scaffolding, aiResponse, decision,
                   inferenceCalls, generationCalls, wordIdx>>

\* prisma.utterance.create, speaker 'child'
A_SaveUtterance ==
    /\ route = "A" /\ pc = "saveUtterance"
    /\ \E dbOk \in BOOLEAN :
          IF ~dbOk
          THEN /\ Catch("PrismaClientKnownRequestError: Invalid prisma.utterance.create() invocation")
               /\ UNCHANGED utterances
          ELSE /\ utterances' = Append(utterances, [speaker |-> "child", text |-> req.utterance,
                                                  metadata |-> {}])
               /\ pc' = "analyze"
               /\ UNCHANGED <<failure, status, channel, streamState>>
    /\ UNCHANGED <<unitVars, pageVars, sessionVars, lastIndex, clientVars, route, req, child, waited, guardCall, sessionExists,
                   analysis, scaffolding, aiResponse, decision,
                   inferenceCalls, generationCalls, wordIdx>>

\* The members of the metadata blob logReasoningAnalysis writes on the child's
\* utterance (reasoningEngine.ts:276).  A metadata blob is held as the set of
\* the names of its members.
AnalysisMetadata == {"vocabularyUsed", "complexityLevel", "hesitationDetected",
                     "pauseDuration", "emotionalTone", "timestamp"}

\* analyzeUtterance (one inference completion; its catch block turns every
\* failure into the fail-safe analysis), then logReasoningAnalysis, which
\* swallows its own errors.
A_Analyze ==
    /\ route = "A" /\ pc = "analyze"
    /\ inferenceCalls' = inferenceCalls + 1
    /\ \E an \in ParsedAnalyses \cup {FailSafeAnalysis} : analysis' = an
    /\ \E logOk \in BOOLEAN :
          utterances' = IF logOk
                        THEN [utterances EXCEPT ![Len(utterances)].metadata = AnalysisMetadata]
                        ELSE utterances
    /\ pc' = "decide"
    /\ UNCHANGED <<unitVars, pageVars, sessionVars, lastIndex, clientVars, route, req, child, waited, guardCall,
                   sessionExists, scaffolding, aiResponse, decision, generationCalls,
                   failure, status, channel, streamState, wordIdx>>

\* A_Decide without the 'observe' branch: the handler goes on to the message
\* whatever the decision.
A_DecideSpeaksAnyway ==
    /\ route = "A" /\ pc = "decide"
    /\ LET updatedState == updateChildState(FreshChildState, analysis)
       IN  scaffolding' = decideScaffolding(analysis, updatedState)
    /\ pc' = "generate"
    /\ UNCHANGED <<unitVars, pageVars, sessionVars, lastIndex, clientVars, route, req, child, waited, guardCall, sessionExists,
                   utterances, analysis, aiResponse, decision, inferenceCalls,
                   generationCalls, failure, wordIdx, status, channel, streamState>>

\* updateChildState, decideScaffolding and the 'observe' branch.
A_Decide ==
    /\ route = "A" /\ pc = "decide"
    /\ LET updatedState == updateChildState(FreshChildState, analysis)
           sc == decideScaffolding(analysis, updatedState)
       IN  /\ scaffolding' = sc
           /\ IF sc.action = "observe"
              THEN /\ status' = 200
                   /\ channel' = <<SseEvent("silent", "reasoning", "observing")>>
                   /\ streamState' = "closed"
                   /\ pc' = "done"
              ELSE /\ pc' = "generate"
                   /\ UNCHANGED <<status, channel, streamState>>
    /\ UNCHANGED <<unitVars, pageVars, sessionVars, lastIndex, clientVars, route, req, child, waited, guardCall, sessionExists,
                   utterances, analysis, aiResponse, decision, inferenceCalls,
                   generationCalls, failure, wordIdx>>

\* let aiResponse = scaffolding.message || await generateAIResponse(...)
A_Generate ==
    /\ route = "A" /\ pc = "generate"
    /\ IF scaffolding.message # ""
       THEN /\ aiResponse' = scaffolding.message
            /\ pc' = "guard"
            /\ UNCHANGED <<generationCalls, failure, status, channel, streamState>>
       ELSE /\ generationCalls' = generationCalls + 1
            /\ \E reply \in Nudges \cup {"", "throws"} :
                  IF reply = "throws"
                  THEN /\ Catch("Error: Connection error.")
                       /\ UNCHANGED aiResponse
                  ELSE /\ aiResponse' = IF reply = "" THEN "Tell me more!" ELSE reply
                       /\ pc' = "guard"
                       /\ UNCHANGED <<failure, status, channel, streamState>>
    /\ UNCHANGED <<unitVars, pageVars, sessionVars, lastIndex, clientVars, route, req, child, waited, guardCall, sessionExists,
                   utterances, analysis, scaffolding, decision, inferenceCalls, wordIdx>>

\* guardContent, then if (!guardResult.safe) aiResponse = sanitizedContent
A_Guard ==
    /\ route = "A" /\ pc = "guard"
    /\ \E review \in Reviews :
          LET guardResult == guardContent(aiResponse, review)
          IN  /\ aiResponse' = IF ~guardResult.safe THEN guardResult.sanitizedContent
                               ELSE aiResponse
              /\ guardCall' = [called |-> TRUE, content |-> aiResponse,
                               reviewThrew |-> /\ ~checkForbiddenPatterns(aiResponse).hasForbidden
                                               /\ review.kind \in {"throws", "malformed"}]
    /\ pc' = "persist"
    /\ UNCHANGED <<unitVars, pageVars, sessionVars, lastIndex, clientVars, route, req, child, waited, sessionExists,
                   utterances, analysis, scaffolding, decision, inferenceCalls,
                   generationCalls, failure, status, channel, streamState, wordIdx>>

\* prisma.utterance.create with speaker 'ai_voice' without checking the
\* outcome: a failed write is ignored and the stream is built all the same.
A_PersistAIUnchecked ==
    /\ route = "A" /\ pc = "persist"
    /\ \E dbOk \in BOOLEAN :
          /\ utterances' = IF dbOk
                           THEN Append(utterances, [speaker |-> "ai_voice", text |-> aiResponse,
                                                    metadata |-> {}])
                           ELSE utterances
          /\ failure' = IF dbOk THEN failure ELSE "persist"
          /\ status' = 200
          /\ channel' = <<SseEvent("start", "none", "")>>
          /\ wordIdx' = 0
          /\ pc' = "words"
          /\ UNCHANGED streamState
    /\ UNCHANGED <<unitVars, pageVars, sessionVars, lastIndex, clientVars, route, req, child, waited, guardCall, sessionExists,
                   analysis, scaffolding, aiResponse, decision, inferenceCalls,
                   generationCalls>>

\* prisma.utterance.create with speaker 'ai_voice'; then new ReadableStream,
\* whose start() runs at once up to its first await (the start event is
\* enqueued), and the Response is returned.
A_PersistAI ==
    /\ route = "A" /\ pc = "persist"
    /\ \E dbOk \in BOOLEAN :
          IF ~dbOk
          THEN /\ Catch("PrismaClientKnownRequestError: Invalid prisma.utterance.create() invocation")
               /\ UNCHANGED <<utterances, wordIdx>>
          ELSE /\ utterances' = Append(utterances, [speaker |-> "ai_voice", text |-> aiResponse,
                                                  metadata |-> {}])
               /\ status' = 200
               /\ channel' = <<SseEvent("start", "none", "")>>
               /\ wordIdx' = 0
               /\ pc' = "words"
               /\ UNCHANGED <<failure, streamState>>
    /\ UNCHANGED <<unitVars, pageVars, sessionVars, lastIndex, clientVars, route, req, child, waited, guardCall, sessionExists,
                   analysis, scaffolding, aiResponse, decision, inferenceCalls,
                   generationCalls>>

\* One turn of the word loop: the 250 ms timer fires, the word is enqueued.
A_StreamWord ==
    /\ route = "A" /\ pc = "words" /\ streamState = "open"
    /\ wordIdx < Len(split(aiResponse))
    /\ channel' = Append(channel, WordEventA(split(aiResponse)[wordIdx + 1], wordIdx))
    /\ wordIdx' = wordIdx + 1
    /\ UNCHANGED <<unitVars, pageVars, sessionVars, lastIndex, clientVars, route, req, child, waited, guardCall, sessionExists,
                   utterances, pc, analysis, scaffolding, aiResponse, decision,
                   inferenceCalls, generationCalls, failure, status, streamState>>

\* After the loop: the end event, controller.close().
A_StreamEnd ==
    /\ route = "A" /\ pc = "words" /\ streamState = "open"
    /\ wordIdx = Len(split(aiResponse))
    /\ channel' = Append(channel, SseEvent("end", "none", ""))
    /\ streamState' = "closed"
    /\ pc' = "done"
    /\ UNCHANGED <<unitVars, pageVars, sessionVars, lastIndex, clientVars, route, req, child, waited, guardCall, sessionExists,
                   utterances, analysis, scaffolding, aiResponse, decision,
                   inferenceCalls, generationCalls, failure, status, wordIdx>>

\* The connection breaks while the words are being sent (a failure inside
\* start(): route A's start() rejects, route B's catch calls
\* controller.error): the body stream is errored.
StreamFail ==
    /\ pc = "words" /\ streamState = "open"
    /\ streamState' = "errored"
    /\ failure' = "stream"
    /\ pc' = "done"
    /\ UNCHANGED <<unitVars, pageVars, sessionVars, lastIndex, clientVars, route, req, child, waited, guardCall, sessionExists,
                   utterances, analysis, scaffolding, aiResponse, decision,
                   inferenceCalls, generationCalls, status, channel, wordIdx>>

(***************************************************************************)
(* The stream route, second version (app/api/children/route.ts:217, POST), *)
(* with shouldProvidNudge of scaffolding.ts.                               *)
(***************************************************************************)
\* JSON.stringify of a string, without the enclosing quotes.
RECURSIVE JsonEscape(_)
JsonEscape(str) ==
    IF Len(str) = 0 THEN ""
    ELSE LET c == Char(str, 1)
             e == CASE c = "\"" -> "\\\""
                    [] c = "\\" -> "\\\\"
                    [] c = "\n" -> "\\n"
                    [] c = "\t" -> "\\t"
                    [] OTHER -> c
         IN  e \o JsonEscape(SubSeq(str, 2, Len(str)))

\* `data: ${JSON.stringify({ word, isLast: i === words.length - 1 })}`
WordEventB(word, isLast) ==
    [fmt |-> "sse", type |-> "undefined", field |-> "word", raw |-> JsonEscape(word),
     isLast |-> isLast]

\* What analyzeChildState hands to shouldProvidNudge: the fields that
\* shouldProvidNudge and calculateDelay read (confidenceScore in percent).
Reasonings ==
    [ok : {TRUE}, shouldIntervene : BOOLEAN, confidenceScore : {59, 60},
     emotionalState : {"engaged", "confused", "frustrated", "confident"}]

\* analyzeChildState rejects.
ReasoningThrows ==
    [ok |-> FALSE, shouldIntervene |-> FALSE, confidenceScore |-> 0,
     emotionalState |-> "engaged"]

\* Math.random() * 2000 - 1000 lies in [-1000, 1000)
Jitters == {-1000, 999}

\* calculateDelay(reasoning), scaffolding.ts:79
calculateDelay(reasoning, jitter) ==
    LET base == CASE reasoning.emotionalState = "confused" -> 3000
                  [] reasoning.emotionalState = "frustrated" -> 2000
                  [] reasoning.emotionalState = "confident" -> 8000
                  [] OTHER -> 5000
    IN  Max(2000, Min(base + jitter, 10000))

\* getSafeFallbackMessage's list, guardrails.ts:375
fallbacks ==
    <<"Let's take a moment to think!", "What do you notice?",
      "I wonder what happens next?", "Tell me what you're thinking!",
      "Let's explore this together!">>

\* shouldProvidNudge(childState, currentUtterance), scaffolding.ts:20.
\* reasoning, nudge and review are what the three completions come back
\* with (~reasoning.ok, nudge = "throws": the call rejects); li is the lastIndex of the blocked
\* patterns before the call.  The result carries the decision, the
\* lastIndex after the call and the completions asked for.
shouldProvidNudge(reasoning, nudge, review, jitter, pick, li) ==
    IF ~reasoning.ok
    THEN [decision |-> NoDecision, lastIndex |-> li, generations |-> 0]
    ELSE IF ~reasoning.shouldIntervene
    THEN [decision |-> NoDecision, lastIndex |-> li, generations |-> 0]
    ELSE IF reasoning.confidenceScore < 60
    THEN [decision |-> NoDecision, lastIndex |-> li, generations |-> 0]
    ELSE IF nudge = "throws"
    THEN [decision |-> NoDecision, lastIndex |-> li, generations |-> 1]
    ELSE LET safetyCheck == checkContentSafety(nudge, review, li)
         IN  IF safetyCheck.isSafe # "true"
             THEN [decision |-> [shouldSpeak |-> TRUE, message |-> fallbacks[pick],
                                 delay |-> calculateDelay(reasoning, jitter)],
                   lastIndex |-> safetyCheck.lastIndex, generations |-> 1]
             ELSE [decision |-> [shouldSpeak |-> TRUE,
                                 message |-> IF safetyCheck.sanitizedContent # ""
                                             THEN safetyCheck.sanitizedContent ELSE nudge,
                                 delay |-> calculateDelay(reasoning, jitter)],
                   lastIndex |-> safetyCheck.lastIndex, generations |-> 1]

\* A plain Response: the whole body at once.
Respond(code, text) ==
    /\ status' = code
    /\ channel' = <<PlainBody(text)>>
    /\ streamState' = "closed"
    /\ pc' = "done"

\* req.json() and the validation of the required fields.
B_Receive ==
    /\ route = "B" /\ pc = "start"
    /\ IF ~req.hasSessionId \/ ~req.hasChildId
       THEN Respond(400, "Missing required fields")
       ELSE /\ pc' = "findChild"
            /\ UNCHANGED <<status, channel, streamState>>
    /\ UNCHANGED <<unitVars, pageVars, sessionVars, lastIndex, clientVars, route, req, child, waited, guardCall, sessionExists,
                   utterances, analysis, scaffolding, aiResponse, decision,
                   inferenceCalls, generationCalls, failure, wordIdx>>

\* prisma.child.findUnique with the session included, then the checks on the
\* child, the session and the opt-in.
B_FindChild ==
    /\ route = "B" /\ pc = "findChild"
    /\ \E dbOk \in BOOLEAN :
          IF ~dbOk
          THEN /\ Respond(500, "Internal server error")
               /\ failure' = "PrismaClientKnownRequestError: Invalid prisma.child.findUnique() invocation"
          ELSE IF ~child.exists
          THEN /\ Respond(404, "Child not found")
               /\ failure' = "Child not found"
          ELSE IF ~sessionExists
          THEN /\ Respond(404, "Session not found")
               /\ failure' = "Session not found"
          ELSE IF ~req.parentOptIn \/ ~child.aiVoiceEnabled
          THEN /\ Respond(200, "silent")
               /\ UNCHANGED failure
          ELSE /\ pc' = "saveUtterance"
               /\ UNCHANGED <<failure, status, channel, streamState>>
    /\ UNCHANGED <<unitVars, pageVars, sessionVars, lastIndex, clientVars, route, req, child, waited, guardCall, sessionExists,
                   utterances, analysis, scaffolding, aiResponse, decision,
                   inferenceCalls, generationCalls, wordIdx>>

\* if (utterance) prisma.utterance.create, speaker 'child'
B_SaveUtterance ==
    /\ route = "B" /\ pc = "saveUtterance"
    /\ IF req.utterance = ""
       THEN /\ pc' = "decide"
            /\ UNCHANGED <<utterances, failure, status, channel, streamState>>
       ELSE \E dbOk \in BOOLEAN :
               IF ~dbOk
               THEN /\ Respond(500, "Internal server error")
                    /\ failure' = "PrismaClientKnownRequestError: Invalid prisma.utterance.create() invocation"
                    /\ UNCHANGED utterances
               ELSE /\ utterances' = Append(utterances,
                                            [speaker |-> "child", text |-> req.utterance,
                                             metadata |-> {"timestamp"}])
                    /\ pc' = "decide"
                    /\ UNCHANGED <<failure, status, channel, streamState>>
    /\ UNCHANGED <<unitVars, pageVars, sessionVars, lastIndex, clientVars, route, req, child, waited, guardCall, sessionExists,
                   analysis, scaffolding, aiResponse, decision,
                   inferenceCalls, generationCalls, wordIdx>>

\* shouldProvidNudge, then the silent branch.
B_Decide ==
    /\ route = "B" /\ pc = "decide"
    /\ \E reasoning \in Reasonings \cup {ReasoningThrows}, nudge \in Nudges \cup {"throws"},
          review \in Reviews, jitter \in Jitters, pick \in 1..Len(fallbacks) :
          LET r == shouldProvidNudge(reasoning, nudge, review, jitter, pick, lastIndex)
          IN  /\ decision' = r.decision
              /\ lastIndex' = r.lastIndex
              /\ inferenceCalls' = inferenceCalls + 1
              /\ generationCalls' = generationCalls + r.generations
              /\ IF ~r.decision.shouldSpeak \/ r.decision.message = ""
                 THEN Respond(200, "silent")
                 ELSE /\ pc' = "persist"
                      /\ UNCHANGED <<status, channel, streamState>>
    /\ UNCHANGED <<unitVars, pageVars, sessionVars, clientVars, route, req, child, waited, guardCall, sessionExists, utterances,
                   analysis, scaffolding, aiResponse, failure, wordIdx>>

\* prisma.utterance.create with speaker 'ai_voice', then new ReadableStream
\* (start() runs up to the wait for decision.delay) and the Response.
B_PersistAI ==
    /\ route = "B" /\ pc = "persist"
    /\ \E dbOk \in BOOLEAN :
          IF ~dbOk
          THEN /\ Respond(500, "Internal server error")
               /\ failure' = "PrismaClientKnownRequestError: Invalid prisma.utterance.create() invocation"
               /\ UNCHANGED <<utterances, wordIdx>>
          ELSE /\ utterances' = Append(utterances,
                                       [speaker |-> "ai_voice", text |-> decision.message,
                                        metadata |-> {"reasoning", "delay"}])
               /\ status' = 200
               /\ wordIdx' = 0
               /\ pc' = "delay"
               /\ UNCHANGED <<failure, channel, streamState>>
    /\ UNCHANGED <<unitVars, pageVars, sessionVars, lastIndex, clientVars, route, req, child, waited, guardCall, sessionExists,
                   analysis, scaffolding, aiResponse, decision, inferenceCalls,
                   generationCalls>>

\* if (decision.delay) await the timer of decision.delay: the wait is over.
B_Delay ==
    /\ route = "B" /\ pc = "delay"
    /\ waited' = IF decision.delay # 0 THEN Append(waited, decision.delay) ELSE waited
    /\ pc' = "words"
    /\ UNCHANGED <<unitVars, pageVars, sessionVars, lastIndex, clientVars, route, req, child, sessionExists,
                   utterances, analysis, scaffolding, aiResponse, decision,
                   inferenceCalls, generationCalls, failure, status, channel,
                   streamState, wordIdx, guardCall>>

\* One turn of the word loop: the word is enqueued, then the pacing wait.
B_StreamWord ==
    /\ route = "B" /\ pc = "words" /\ streamState = "open"
    /\ wordIdx < Len(split(decision.message))
    /\ channel' = Append(channel,
                         WordEventB(split(decision.message)[wordIdx + 1],
                                    wordIdx = Len(split(decision.message)) - 1))
    /\ wordIdx' = wordIdx + 1
    /\ UNCHANGED <<unitVars, pageVars, sessionVars, lastIndex, clientVars, route, req, child, waited, guardCall, sessionExists,
                   utterances, pc, analysis, scaffolding, aiResponse, decision,
                   inferenceCalls, generationCalls, failure, status, streamState>>

\* After the loop: controller.close().
B_StreamClose ==
    /\ route = "B" /\ pc = "words" /\ streamState = "open"
    /\ wordIdx = Len(split(decision.message))
    /\ streamState' = "closed"
    /\ pc' = "done"
    /\ UNCHANGED <<unitVars, pageVars, sessionVars, lastIndex, clientVars, route, req, child, waited, guardCall, sessionExists,
                   utterances, analysis, scaffolding, aiResponse, decision,
                   inferenceCalls, generationCalls, failure, status, channel, wordIdx>>

(***************************************************************************)
(* The VoiceNarrator component (unnamed/part_005): fetchStream.            *)
(***************************************************************************)
\* JSON.parse of a string literal whose characters between the quotes are
\* raw, read from position i with acc decoded so far.  An unescaped quote
\* ends the literal early and what follows it is then no valid JSON (the
\* texts here hold no colon); a backslash must start one of the escapes of
\* JSON, and at the end of raw it takes the closing quote into the literal,
\* which leaves the rest of the object invalid.
RECURSIVE parseStringFrom(_, _, _)
parseStringFrom(raw, i, acc) ==
    IF i > Len(raw) THEN [ok |-> TRUE, value |-> acc]
    ELSE LET c == Char(raw, i)
         IN  IF c = "\"" \/ c = "\n" \/ c = "\t" THEN [ok |-> FALSE, value |-> ""]
             ELSE IF c = "\\"
             THEN IF i = Len(raw) THEN [ok |-> FALSE, value |-> ""]
                  ELSE LET d == Char(raw, i + 1)
                       IN  CASE d \in {"\"", "\\", "/"} ->
                                    parseStringFrom(raw, i + 2, acc \o d)
                             [] d = "n" -> parseStringFrom(raw, i + 2, acc \o "\n")
                             [] d = "t" -> parseStringFrom(raw, i + 2, acc \o "\t")
                             [] OTHER -> [ok |-> FALSE, value |-> ""]
             ELSE parseStringFrom(raw, i + 1, acc \o c)

parseString(raw) == parseStringFrom(raw, 1, "")

\* fetch resolves with the response: a status outside 200..299 throws
\* 'Stream failed' into the catch block.
ClientResponse ==
    /\ cpc = "waiting"
    /\ status # 0
    /\ IF status < 200 \/ status > 299
       THEN /\ isVisible' = FALSE
            /\ onCompleteCalls' = onCompleteCalls + 1
            /\ cpc' = "done"
       ELSE /\ cpc' = "reading"
            /\ UNCHANGED <<isVisible, onCompleteCalls>>
    /\ UNCHANGED <<unitVars, pageVars, sessionVars, lastIndex, serverVars, cpos, words, displayText, received,
                   timers>>

\* reader.read() hands over the next chunk; its complete lines are handled.
\* A plain body has no line end, so it stays in the buffer.
ClientRead ==
    /\ cpc = "reading"
    /\ cpos < Len(channel)
    /\ cpos' = cpos + 1
    /\ LET chunk == channel[cpos + 1]
           parsed == IF chunk.fmt = "sse" THEN parseString(chunk.raw)
                     ELSE [ok |-> FALSE, value |-> ""]
           type == IF chunk.fmt = "sse" /\ parsed.ok THEN chunk.type ELSE "undefined"
           content == IF chunk.fmt = "sse" /\ chunk.field = "content" THEN parsed.value
                      ELSE ""
       IN  /\ isVisible' = IF type = "start" THEN TRUE
                           ELSE IF type = "error" THEN FALSE ELSE isVisible
           /\ words' = IF type = "word" /\ content # "" THEN Append(words, content)
                       ELSE words
           /\ displayText' = IF type = "word" /\ content # ""
                             THEN join(Append(words, content)) ELSE displayText
           /\ timers' = IF type = "end" THEN timers + 1 ELSE timers
           /\ onCompleteCalls' = IF type \in {"silent", "error"} THEN onCompleteCalls + 1
                                 ELSE onCompleteCalls
           /\ received' = IF type \in {"start", "end", "silent", "error"}
                             \/ (type = "word" /\ content # "")
                          THEN Append(received, type) ELSE received
    /\ UNCHANGED <<unitVars, pageVars, sessionVars, lastIndex, serverVars, cpc>>

\* reader.read() reports done: the loop breaks and fetchStream returns.
ClientEof ==
    /\ cpc = "reading"
    /\ cpos = Len(channel)
    /\ streamState = "closed"
    /\ cpc' = "done"
    /\ UNCHANGED <<unitVars, pageVars, sessionVars, lastIndex, serverVars, cpos, words, displayText, isVisible,
                   received, timers, onCompleteCalls>>

\* reader.read() rejects because the body stream is errored: the catch block.
ClientReadError ==
    /\ cpc = "reading"
    /\ streamState = "errored"
    /\ isVisible' = FALSE
    /\ onCompleteCalls' = onCompleteCalls + 1
    /\ cpc' = "done"
    /\ UNCHANGED <<unitVars, pageVars, sessionVars, lastIndex, serverVars, cpos, words, displayText, received,
                   timers>>

\* The 3000 ms timer of the 'end' branch fires.
ClientTimer ==
    /\ timers > 0
    /\ timers' = timers - 1
    /\ isVisible' = FALSE
    /\ onCompleteCalls' = onCompleteCalls + 1
    /\ UNCHANGED <<unitVars, pageVars, sessionVars, lastIndex, serverVars, cpc, cpos, words, displayText,
                   received>>

\* The consumer goes away while words remain to be sent (the tab is closed,
\* the page is left): the component reads no more.  Whether the runtime
\* cancels the body stream on the disconnect is its choice; neither version
\* of the route gives its ReadableStream a cancel callback.
ClientDisconnect ==
    /\ cpc = "reading"
    /\ pc \in {"delay", "words"} /\ streamState = "open"
    /\ wordIdx < Len(split(IF route = "A" THEN aiResponse ELSE decision.message))
    /\ cpc' = "gone"
    /\ \E propagated \in BOOLEAN :
          streamState' = IF propagated THEN "cancelled" ELSE streamState
    /\ UNCHANGED <<unitVars, pageVars, sessionVars, lastIndex, route, req, child, waited, guardCall,
                   sessionExists, utterances, pc, analysis, scaffolding, aiResponse,
                   decision, inferenceCalls, generationCalls, failure, status, channel,
                   wordIdx, cpos, words, displayText, isVisible, received, timers,
                   onCompleteCalls>>

\* The pacing timer that was pending at the cancellation fires and the loop
\* goes on: controller.enqueue (or close) on the cancelled stream throws a
\* TypeError.  Route A's start() rejects with it; route B's catch logs
\* 'SSE streaming error' and calls controller.error.
StreamAfterCancel ==
    /\ pc = "words" /\ streamState = "cancelled"
    /\ failure' = "stream"
    /\ pc' = "done"
    /\ UNCHANGED <<unitVars, pageVars, sessionVars, lastIndex, clientVars, route, req, child, waited, guardCall,
                   sessionExists, utterances, analysis, scaffolding, aiResponse, decision,
                   inferenceCalls, generationCalls, status, channel, streamState,
                   wordIdx>>

\* handleAIComplete, the page's onComplete: GET /api/sessions/[sessionId]
\* (unnamed/part_003:143), whose body is the session row with its utterance
\* rows included, every column of them; an error body carries no rows.
PageReload ==
    /\ pageLoads < onCompleteCalls
    /\ pageLoads' = pageLoads + 1
    /\ \E dbOk \in BOOLEAN :
          transcript' = IF dbOk /\ req.hasSessionId /\ sessionExists
                        THEN utterances ELSE <<>>
    /\ UNCHANGED <<unitVars, sessionVars, lastIndex, serverVars, clientVars, page, inputText,
                   lastUtterance, submitted, keystrokes>>

(***************************************************************************)
(* One request from the component to the endpoint, served by either        *)
(* version of the route.                                                   *)
(***************************************************************************)
Init ==
    /\ input = [fn |-> "none"]
    /\ output = NoCall
    /\ calls = 0
    /\ lastIndex = [k \in 1..Len(BLOCKED_PATTERNS) |-> 0]
    /\ route \in {"A", "B"}
    /\ req \in Requests
    /\ child \in Children
    /\ sessionExists \in BOOLEAN
    /\ utterances = <<>>
    /\ pc = "start"
    /\ analysis = FailSafeAnalysis
    /\ scaffolding = NoScaffolding
    /\ aiResponse = ""
    /\ decision = NoDecision
    /\ inferenceCalls = 0
    /\ generationCalls = 0
    /\ failure = ""
    /\ status = 0
    /\ channel = <<>>
    /\ streamState = "open"
    /\ wordIdx = 0
    /\ waited = <<>>
    /\ guardCall = NoGuardCall
    /\ cpc = "waiting"
    /\ cpos = 0
    /\ words = <<>>
    /\ displayText = ""
    /\ isVisible = FALSE
    /\ received = <<>>
    /\ timers = 0
    /\ onCompleteCalls = 0
    /\ NoSession

Next ==
    \/ A_Receive \/ A_FindChild \/ A_FindSession \/ A_SaveUtterance \/ A_Analyze
    \/ A_Decide \/ A_Generate \/ A_Guard \/ A_PersistAI \/ A_StreamWord \/ A_StreamEnd
    \/ B_Receive \/ B_FindChild \/ B_SaveUtterance \/ B_Decide \/ B_PersistAI
    \/ B_Delay \/ B_StreamWord \/ B_StreamClose
    \/ StreamFail
    \/ ClientResponse \/ ClientRead \/ ClientEof \/ ClientReadError \/ ClientTimer
    \/ PageReload
    \/ ClientDisconnect \/ StreamAfterCancel

Spec == Init /\ [][Next]_vars

(***************************************************************************)
(* Properties of the stream endpoint and its consumer.                     *)
(***************************************************************************)
IsWordChunk(c) == c.fmt = "sse" /\ c.field \in {"content", "word"}

IsSilentSignal(c) ==
    \/ c.fmt = "sse" /\ c.type = "silent"
    \/ c.fmt = "plain" /\ c.raw = "silent"

\* The chunk carries the text of an error.
IsErrorText(c) ==
    \/ c.fmt = "sse" /\ c.type = "error"
    \/ c.fmt = "plain" /\ c.raw # "silent"

WordChunks == SelectSeq(channel, IsWordChunk)

AiUtterances == {i \in 1..Len(utterances) : utterances[i].speaker = "ai_voice"}

\* The word chunks a complete delivery of text consists of.
ExpectedWordChunks(text) ==
    LET ws == split(text)
    IN  [i \in 1..Len(ws) |->
            IF route = "A" THEN WordEventA(ws[i], i - 1) ELSE WordEventB(ws[i], i = Len(ws))]

IsPrefix(p, q) == Len(p) <= Len(q) /\ SubSeq(q, 1, Len(p)) = p

\* The request is opted out: by its parentOptIn flag or by the child's flag.
OptedOut == ~req.parentOptIn \/ (child.exists /\ ~child.aiVoiceEnabled)

\* A message was approved and its delivery ran to the end of the stream.
Delivered == AiUtterances # {} /\ pc = "done" /\ streamState = "closed"

\* C2: on every failure path of the stream endpoint what is sent to the
\* child-facing channel is a silent signal or a fallback phrase: no chunk
\* of any response carries error text or an exception message.
C2_NoErrorTextSent ==
    failure # "" => \A i \in 1..Len(channel) : ~IsErrorText(channel[i])

\* C3: if parentOptIn is false or the child's aiVoiceEnabled is false, the
\* endpoint makes no inference call and no generation call, creates no
\* ai_voice utterance, streams no word, and a successful response is the
\* silent signal alone.
C3_OptedOutIsSilent ==
    OptedOut =>
        /\ inferenceCalls = 0
        /\ generationCalls = 0
        /\ AiUtterances = {}
        /\ WordChunks = <<>>
        /\ (pc = "done" /\ status = 200) =>
               (Len(channel) = 1 /\ IsSilentSignal(channel[1]))

\* C5: no word increment is on the stream unless an ai_voice utterance with
\* exactly the message being streamed was persisted before; the word chunks
\* sent so far are the first words of that persisted text, and when the
\* write failed neither a start signal nor a word is sent.
C5_PersistedBeforeStreamed ==
    (\E i \in 1..Len(channel) :
        IsWordChunk(channel[i]) \/ (channel[i].fmt = "sse" /\ channel[i].type = "start"))
        => \E u \in AiUtterances :
              IsPrefix(WordChunks, ExpectedWordChunks(utterances[u].text))

\* C5 witness: two words of the persisted message are on the stream.
C5_Witness ==
    /\ Len(WordChunks) >= 2
    /\ \E u \in AiUtterances :
          /\ utterances[u].text = "Tell me more"
          /\ IsPrefix(WordChunks, ExpectedWordChunks(utterances[u].text))

\* C8: when the first version of the route has delivered an approved message
\* and the component has read the stream to its end, the text the component
\* rebuilt from the word increments is the approved message.
C8_RoundTrip ==
    (route = "A" /\ Delivered /\ cpc = "done")
        => \E u \in AiUtterances : displayText = utterances[u].text

\* C9: a completed non-silent delivery is one start signal, then one word
\* increment per word of the message in index order 0..n-1, then one end
\* signal, and nothing else.
C9_StartWordsEnd ==
    Delivered =>
        \E u \in AiUtterances :
            LET ws == split(utterances[u].text)
                n == Len(ws)
            IN  /\ Len(channel) = n + 2
                /\ channel[1].fmt = "sse" /\ channel[1].type = "start"
                /\ \A i \in 1..n :
                       /\ channel[i + 1].fmt = "sse"
                       /\ channel[i + 1].type = "word"
                       /\ channel[i + 1].index = i - 1
                       /\ channel[i + 1].raw = ws[i]
                /\ channel[n + 2].fmt = "sse" /\ channel[n + 2].type = "end"

\* An explicit terminal signal reached the consumer: an end, silent or error
\* event, a plain 'silent' body, or an error status.
TerminalSignal ==
    \/ \E i \in 1..Len(channel) :
          \/ channel[i].fmt = "sse" /\ channel[i].type \in {"end", "silent", "error"}
          \/ IsSilentSignal(channel[i])
    \/ status >= 400

\* C10: once the component has finished with a request (fetchStream has
\* returned and no timer is pending), it has been given an explicit terminal
\* signal and has called onComplete: the consumer is not left waiting.
C10_TerminalSignalAndOnComplete ==
    (cpc = "done" /\ timers = 0) => (TerminalSignal /\ onCompleteCalls >= 1)

\* C19: a stream request without sessionId or childId is answered with a
\* client-error (4xx) status, before any inference call and without any
\* utterance row being created.
C19_MissingIdsRejected ==
    (~req.hasSessionId \/ ~req.hasChildId)
        => /\ inferenceCalls = 0
           /\ utterances = <<>>
           /\ pc = "done" => status \in 400..499
\* C13: whenever the silence since the child's last utterance exceeds the
\* threshold of the child's emotional state, the analysis handed to
\* decideScaffolding has shouldIntervene true with the reason
\* "prolonged_silence", whatever the inference returned.
C13_ProlongedSilenceForcesIntervention ==
    (route = "A" /\ pc = "decide"
     /\ req.silence > thresholds(updateChildState(FreshChildState, analysis).emotionalState))
        => /\ analysis.shouldIntervene
           /\ analysis.interventionReason = "prolonged_silence"
\* The members of a metadata blob that are internal: the decision's
\* reasoning, confidence and delay, and the fields of the analysis.
InternalKeys == {"reasoning", "confidence", "delay"} \cup (AnalysisMetadata \ {"timestamp"})

\* C20: no response the child-facing session page receives contains the
\* internal metadata of an utterance (reasoning, confidence, delay, analysis
\* fields).
C20_NoMetadataAtClient ==
    \A i \in 1..Len(transcript) : transcript[i].metadata \cap InternalKeys = {}
\* C11: once the consumer has disconnected after k of n words (0 <= k < n),
\* the streamer emits no further increment and does not enter the error
\* state.
C11_CancelStopsStreamer ==
    [][cpc = "gone" => (channel' = channel /\ failure' # "stream")]_vars
\* The policy's decision for the utterance of this request is to stay
\* silent: 'observe' in the first version of the route, shouldSpeak false or
\* no message in the second.
DecidedSilent ==
    \/ route = "A" /\ scaffolding.action = "observe"
    \/ /\ route = "B" /\ inferenceCalls = 1
       /\ ~decision.shouldSpeak \/ decision.message = ""

\* C29: when the policy's decision for an utterance is 'observe' (or
\* shouldSpeak is false), the stream endpoint emits exactly one silent
\* signal, emits no word increment, and persists no ai_voice utterance for
\* that utterance.
C29_ObserveIsSilent ==
    DecidedSilent =>
        /\ Len(SelectSeq(channel, IsSilentSignal)) = 1
        /\ WordChunks = <<>>
        /\ AiUtterances = {}

\* C29 witness: the inference asked to intervene at confidence 0.5, the
\* decision was 'observe', and the response is the silent signal alone after
\* the child's utterance was stored.
C29_Witness ==
    /\ route = "A" /\ pc = "done"
    /\ analysis.shouldIntervene
    /\ scaffolding.action = "observe"
    /\ Len(utterances) = 1
    /\ Len(channel) = 1 /\ IsSilentSignal(channel[1])

\* C30: sanitizeContent is the identity on a text without a forbidden-pattern
\* match; so when the review of guardContent fails after a clean fast path,
\* the replacement text the stream route persists and streams is exactly the
\* unreviewed candidate.
C30_FailedReviewKeepsCandidate ==
    (route = "A" /\ guardCall.called /\ guardCall.reviewThrew)
        => /\ sanitizeContent(guardCall.content) = guardCall.content
           /\ aiResponse = guardCall.content
           /\ \A u \in AiUtterances : utterances[u].text = guardCall.content
           /\ IsPrefix(WordChunks, ExpectedWordChunks(guardCall.content))

\* C30 witness: the review threw for the candidate 'Say "hi" now' and the
\* delivery of that very text ran to the end of the stream.
C30_Witness ==
    /\ route = "A" /\ guardCall.called /\ guardCall.reviewThrew
    /\ guardCall.content = "Say \"hi\" now"
    /\ Delivered
    /\ \E u \in AiUtterances : utterances[u].text = guardCall.content
    /\ Len(WordChunks) = 3

\* The delay the intervention policy computed for the decision of this
\* request.
ComputedDelay == IF route = "A" THEN scaffolding.delay ELSE decision.delay

\* C22: before the first increment of a delivery is emitted, the streamer
\* has waited exactly once, for the delay the intervention policy computed
\* for that decision.
C22_DelayWaitedOnce ==
    WordChunks # <<>> => waited = <<ComputedDelay>>

\* C24: the ChildState update runs after the policy decision: the decision
\* for an utterance is the one decideScaffolding computes from the child
\* state as it was before that utterance's update.
C24_DecisionFromStateBeforeUpdate ==
    (route = "A" /\ scaffolding.action # "none")
        => scaffolding = decideScaffolding(analysis, FreshChildState)

(***************************************************************************)
(* One session on the session page: the child submits utterances, the      *)
(* VoiceNarrator effect starts a fetchStream for each, and every request   *)
(* is served by the route of unnamed/part_004.  Stream k is the request    *)
(* and the response body of the k-th utterance: its chunks are the start   *)
(* event, one event per word of the message and the end event.             *)
(***************************************************************************)
MaxUtterances == 2  \* utterances the child submits in the session
MaxTime == 20       \* seconds of the session that are followed

\* What the inference hands back for an utterance of the session.
SessionAnalyses ==
    {FailSafeAnalysis,
     [FailSafeAnalysis EXCEPT !.shouldIntervene = TRUE, !.confidenceScore = 90,
                              !.suggestedNudge = "Tell me more"]}

InitSession ==
    /\ input = [fn |-> "none"]
    /\ output = NoCall
    /\ calls = 0
    /\ lastIndex = [k \in 1..Len(BLOCKED_PATTERNS) |-> 0]
    /\ NoRequest
    /\ NoSession

\* Time passes.
Tick ==
    /\ now + 10 <= MaxTime
    /\ now' = now + 10
    /\ UNCHANGED <<unitVars, lastIndex, serverVars, clientVars, pageVars, streams, shown,
                   deliveries, processed>>

\* handleSubmit sets lastUtterance; the VoiceNarrator effect runs again for
\* the new utterance: it resets displayText and calls fetchStream.  The
\* effect returns no cleanup, so an earlier fetchStream keeps reading.
Submit ==
    /\ Len(streams) < MaxUtterances
    /\ streams' = Append(streams, [at |-> now, state |-> "requested", message |-> <<>>,
                                   sent |-> 0, read |-> 0])
    /\ displayText' = ""
    /\ isVisible' = FALSE
    /\ UNCHANGED <<unitVars, lastIndex, serverVars, pageVars, now, shown, deliveries,
                   processed, cpc, cpos, words, received, timers, onCompleteCalls>>

\* POST of unnamed/part_004 for request k, up to the Response: the lookups
\* and writes (any of which can reject), analyzeUtterance, updateChildState,
\* decideScaffolding, the message, guardContent, the ai_voice utterance, and
\* the start event of the stream.
Serve(k) ==
    /\ streams[k].state = "requested"
    /\ \E dbOk \in BOOLEAN, an \in SessionAnalyses, review \in Reviews :
          LET updatedState == updateChildState(FreshChildState, an)
              sc == decideScaffolding(an, updatedState)
              generated == IF sc.message # "" THEN sc.message ELSE "Tell me more!"
              guardResult == guardContent(generated, review)
              message == IF ~guardResult.safe THEN guardResult.sanitizedContent
                         ELSE generated
          IN  IF ~dbOk
              THEN /\ streams' = [streams EXCEPT ![k].state = "failed"]
                   /\ UNCHANGED deliveries
              ELSE IF sc.action = "observe"
              THEN /\ streams' = [streams EXCEPT ![k].state = "silent"]
                   /\ UNCHANGED deliveries
              ELSE /\ streams' = [streams EXCEPT ![k].state = "streaming",
                                                 ![k].message = split(message),
                                                 ![k].sent = 1]
                   /\ deliveries' = Append(deliveries,
                                           [stream |-> k, at |-> now,
                                            engagement |-> updatedState.engagementScore])
    /\ UNCHANGED <<unitVars, lastIndex, serverVars, clientVars, pageVars, now, shown,
                   processed>>

\* One turn of the word loop of stream k: the 250 ms timer fires, the word
\* is enqueued.
StreamWord(k) ==
    /\ streams[k].state = "streaming"
    /\ streams[k].sent <= Len(streams[k].message)
    /\ streams' = [streams EXCEPT ![k].sent = @ + 1]
    /\ UNCHANGED <<unitVars, lastIndex, serverVars, clientVars, pageVars, now, shown,
                   deliveries, processed>>

\* After the loop of stream k: the end event, controller.close().
StreamEnd(k) ==
    /\ streams[k].state = "streaming"
    /\ streams[k].sent = Len(streams[k].message) + 1
    /\ streams' = [streams EXCEPT ![k].sent = @ + 1, ![k].state = "closed"]
    /\ UNCHANGED <<unitVars, lastIndex, serverVars, clientVars, pageVars, now, shown,
                   deliveries, processed>>

\* The fetchStream of utterance k reads its next chunk.  A word event is
\* pushed on that fetchStream's own words array and setDisplayText is called
\* with the array joined: the component shows the words of stream k.
Read(k) ==
    /\ streams[k].state \in {"streaming", "closed"}
    /\ streams[k].read < streams[k].sent
    /\ streams' = [streams EXCEPT ![k].read = @ + 1]
    /\ LET i == streams[k].read
           n == Len(streams[k].message)
           content(j) == parseString(streams[k].message[j])
           pushed(j) == content(j).ok /\ content(j).value # ""
           wordsOfK == [j \in 1..i |-> content(j).value]
       IN  IF i = 0
           THEN /\ isVisible' = TRUE
                /\ UNCHANGED <<displayText, shown>>
           ELSE IF i <= n /\ pushed(i)
           THEN /\ shown' = Append(shown, k)
                /\ displayText' = join(SelectSeq(wordsOfK, LAMBDA w : w # ""))
                /\ UNCHANGED isVisible
           ELSE UNCHANGED <<displayText, shown, isVisible>>
    /\ UNCHANGED <<unitVars, lastIndex, serverVars, pageVars, now, deliveries, processed,
                   cpc, cpos, words, received, timers, onCompleteCalls>>

NextSession ==
    \/ Tick
    \/ Submit
    \/ \E k \in 1..Len(streams) : Serve(k)
    \/ \E k \in 1..Len(streams) : StreamWord(k)
    \/ \E k \in 1..Len(streams) : StreamEnd(k)
    \/ \E k \in 1..Len(streams) : Read(k)

SpecSession == InitSession /\ [][NextSession]_vars

\* C12: within one session the increments of two streams are never
\* interleaved at the consumer: between two words of one stream the
\* component renders no word of another stream.
C12_NoInterleavedStreams ==
    \A a, b, c \in 1..Len(shown) :
        (a < b /\ b < c /\ shown[a] = shown[c]) => shown[b] = shown[a]

\* C15: the rate limits hold for the messages delivered in a session: no
\* message is delivered less than 20 s after the previous one, no more than
\* three are delivered within the window, and none while the engagement
\* score is above 80.
C15_RateLimitsHold ==
    /\ \A i \in 2..Len(deliveries) : deliveries[i].at - deliveries[i - 1].at >= 20
    /\ Len(deliveries) <= 3
    /\ \A i \in 1..Len(deliveries) : deliveries[i].engagement <= 80
(***************************************************************************)
(* The session page and its VoiceNarrator.  The page passes the component  *)
(* the utterance to stream and an onComplete callback that is a new        *)
(* function on every render of the page (an inline arrow function in       *)
(* app/session, the function handleAIComplete in app/(learning)/session).  *)
(* The component's effect has [utterance, sessionId, childId, parentOptIn, *)
(* onComplete] as dependencies: it runs again after every render of the    *)
(* page and, when utterance is set, calls fetchStream.  Request k is the   *)
(* k-th fetchStream: the message it is for and how far it has got.  Every  *)
(* request is served by the route of unnamed/part_004.                     *)
(***************************************************************************)
MaxMessages == 2    \* messages the child submits
MaxKeystrokes == 3  \* changes of the input box that are followed

\* What the inference hands back for an utterance on the page.
PageAnalyses ==
    {[FailSafeAnalysis EXCEPT !.hesitationDetected = he, !.shouldIntervene = si,
                              !.confidenceScore = 90, !.suggestedNudge = "Tell me more"] :
        he \in BOOLEAN, si \in BOOLEAN}

InitPage ==
    /\ input = [fn |-> "none"]
    /\ output = NoCall
    /\ calls = 0
    /\ lastIndex = [k \in 1..Len(BLOCKED_PATTERNS) |-> 0]
    /\ NoRequest
    /\ transcript = <<>>
    /\ pageLoads = 0
    /\ page \in {"P", "L"}
    /\ inputText = ""
    /\ lastUtterance = ""
    /\ submitted = 0
    /\ keystrokes = 0
    /\ now = 0
    /\ streams = <<>>
    /\ shown = <<>>
    /\ deliveries = <<>>
    /\ processed = <<>>

\* The effect of VoiceNarrator after a render of the page in which the
\* utterance prop is utterance: if (!utterance) return; otherwise the state
\* is reset and fetchStream is called.  In app/(learning) the component is
\* rendered only while lastUtterance is set.
EffectRuns(utterance) ==
    streams' = IF utterance # ""
               THEN Append(streams, [msg |-> submitted', state |-> "requested"])
               ELSE streams

\* onChange of the input box: setCurrentUtterance / setInputText, and the
\* page renders again.
TypeText ==
    /\ keystrokes < MaxKeystrokes
    /\ keystrokes' = keystrokes + 1
    /\ inputText' = ChildUtterance
    /\ UNCHANGED <<lastUtterance, submitted>>
    /\ EffectRuns(lastUtterance)
    /\ UNCHANGED <<unitVars, lastIndex, serverVars, clientVars, transcript, pageLoads, page,
                   now, shown, deliveries, processed>>

\* handleSendUtterance / handleSubmit: the text becomes the utterance to
\* stream and the input box is emptied; one render.
SubmitMessage ==
    /\ inputText # ""
    /\ submitted < MaxMessages
    /\ submitted' = submitted + 1
    /\ lastUtterance' = inputText
    /\ inputText' = ""
    /\ EffectRuns(inputText)
    /\ UNCHANGED <<unitVars, lastIndex, serverVars, clientVars, transcript, pageLoads, page,
                   keystrokes, now, shown, deliveries, processed>>

\* POST of unnamed/part_004 for request k with its response body: the
\* child's utterance is stored, the child state is built anew (hesitationCount
\* 0) and updated with the analysis, and unless the decision is 'observe' the
\* ai_voice utterance is stored and streamed.  A rejected query ends in the
\* 500 response.
ServeRequest(k) ==
    /\ streams[k].state = "requested"
    /\ streams' = [streams EXCEPT ![k].state = "served"]
    /\ \E dbOk \in BOOLEAN, an \in PageAnalyses :
          LET updatedState == updateChildState(FreshChildState, an)
              sc == decideScaffolding(an, updatedState)
              childRow == [speaker |-> "child", text |-> ChildUtterance,
                           metadata |-> AnalysisMetadata]
              aiRow == [speaker |-> "ai_voice", text |-> sc.message, metadata |-> {}]
          IN  IF ~dbOk
              THEN UNCHANGED <<utterances, processed>>
              ELSE /\ utterances' = IF sc.action = "observe"
                                    THEN Append(utterances, childRow)
                                    ELSE utterances \o <<childRow, aiRow>>
                   /\ processed' = Append(processed,
                                          [msg |-> streams[k].msg,
                                           hesitationDetected |-> an.hesitationDetected,
                                           hesitationCount |-> updatedState.hesitationCount])
    /\ UNCHANGED <<unitVars, lastIndex, clientVars, pageVars, now, shown, deliveries,
                   route, req, child, waited, guardCall, sessionExists, pc, analysis, scaffolding,
                   aiResponse, decision, inferenceCalls, generationCalls, failure, status,
                   channel, streamState, wordIdx>>

\* The fetchStream of request k has read its response to the end (or has
\* caught the failed response) and calls the onComplete it was given.  In
\* app/session that is setUtteranceToStream(null): the page renders with no
\* utterance to stream.  In app/(learning) handleAIComplete fetches the
\* session, whose body has no session member: no state is set.
CompleteRequest(k) ==
    /\ streams[k].state = "served"
    /\ streams' = [streams EXCEPT ![k].state = "completed"]
    /\ onCompleteCalls' = onCompleteCalls + 1
    /\ lastUtterance' = IF page = "P" THEN "" ELSE lastUtterance
    /\ UNCHANGED <<unitVars, lastIndex, serverVars, transcript, pageLoads, page, inputText,
                   submitted, keystrokes, now, shown, deliveries, processed,
                   cpc, cpos, words, displayText, isVisible, received, timers>>

NextPage ==
    \/ TypeText
    \/ SubmitMessage
    \/ \E k \in 1..Len(streams) : ServeRequest(k)
    \/ \E k \in 1..Len(streams) : CompleteRequest(k)

SpecPage == InitPage /\ [][NextPage]_vars

\* The rows of a speaker among the persisted utterances.
RowsOf(speaker) == {i \in 1..Len(utterances) : utterances[i].speaker = speaker}

\* C21: each child message submitted in the session page causes exactly one
\* stream request, hence one persisted child utterance and at most one
\* persisted AI utterance, whatever re-renders or state changes happen in the
\* page while or after the stream runs.
C21_OneRequestPerMessage ==
    /\ \A m \in 1..submitted :
          Cardinality({k \in 1..Len(streams) : streams[k].msg = m}) = 1
    /\ Cardinality(RowsOf("child")) <= submitted
    /\ Cardinality(RowsOf("ai_voice")) <= submitted

\* C28: within a session, the hesitation count the pipeline holds never
\* decreases from one processed utterance to the next, and grows by exactly
\* one for each utterance in which hesitation is detected.
C28_HesitationCountMonotonic ==
    (\A i \in 1..Len(processed) : processed[i].msg = i)
        => \A i \in 1..Len(processed) :
              LET before == IF i = 1 THEN 0 ELSE processed[i - 1].hesitationCount
              IN  processed[i].hesitationCount
                     = before + (IF processed[i].hesitationDetected THEN 1 ELSE 0)

====
